---- MODULE Spec2Model ----
(***************************************************************************)
(* Model of the monitoring collector of tyagachi:                          *)
(*   src/tyagachi/src/api/client.py   APIClient._make_request              *)
(*   src/tyagachi/src/api/fetcher.py  DataFetcher.fetch_monitoring_batch   *)
(*   src/tyagachi/src/web/shifts.py   split_period_into_shifts             *)
(*                                                                         *)
(* SpecShifts is one call of split_period_into_shifts.                     *)
(* Two specifications share the definitions of the client:                 *)
(*   SpecClient  one call of _make_request, one loop iteration per step,   *)
(*               the remote service answering freely;                      *)
(*   Spec        fetch_monitoring_batch, sequential (one token) and        *)
(*               parallel (several tokens); one call of                    *)
(*               get_monitoring_stats is one step whose result is          *)
(*               _make_request run on a response script of the service.    *)
(*                                                                         *)
(* Time is a natural number of seconds.  at[w] is the wall-clock time the  *)
(* control of worker w has reached; time.sleep(d) and a request that times *)
(* out move it forward, everything else is taken to cost no time.          *)
(***************************************************************************)
EXTENDS Integers, Sequences, FiniteSets, TLC

VARIABLES
    json_error_is_request_exception, \* build: requests.JSONDecodeError derives from RequestException
    client,          \* worker -> state of its current / last _make_request call
    tokens,          \* len(self.tokens)
    tasks,           \* the argument of fetch_monitoring_batch
    service,         \* vehicle -> the response scripts the remote service may follow for it
    main_pc,         \* position of the caller's thread
    task_queues,     \* worker -> its task list
    pos,             \* worker -> index of the current task in its list (1-based)
    pc,              \* worker -> position inside the loop body
    at,              \* worker -> wall-clock time reached
    last_request_time, \* worker -> (vehicle -> time, or NoTime)
    local_results,   \* worker -> its result map (sequential: the map `results` itself)
    results,         \* the aggregate map of the parallel path / the returned map
    merged,          \* sequence of workers whose future was consumed by as_completed
    completed,       \* completed[0] of the parallel path
    completed_read,  \* worker -> the value of completed[0] it loaded for `+= 1`
    lock,            \* holder of threading.Lock, NoWorker when free
    callback_log,    \* the calls progress_callback received, in order
    stdout_log,      \* the progress lines "[k/total]" written to stdout, in order
    wait_log,        \* worker -> per processed task, the rate-limit check it made
    fetch_log,       \* worker -> per processed task, the fetch it made and its outcome
    use_callback,    \* whether the caller passed a progress_callback
    from_dt,         \* split_period_into_shifts: period start
    to_dt,           \* split_period_into_shifts: period end
    current,         \* split_period_into_shifts: the cursor of the while loop
    shifts,          \* split_period_into_shifts: the list built so far
    split_pc,        \* split_period_into_shifts: position ("idle" when not called)
    split_str,       \* split_period_into_shifts_str: its arguments, position and result
    reorder,         \* _reorder_tasks_for_rate_limit: its argument, locals and position
    extract,         \* extract_monitoring_tasks: the records read, the tasks built, position
    simplify,        \* _simplify_track: its argument, locals and position
    parse,           \* parse_monitoring: its argument, locals and position
    construct,       \* DataFetcher(config_path): the configuration read and the outcome
    server,          \* web/server.py: fetch_status, sync_status, their locks, the requests
    sync             \* sync_vehicle_data: the stored records and the position of a run

vars == <<json_error_is_request_exception, client, tokens, tasks, service, main_pc,
          task_queues, pos, pc, at, last_request_time, local_results, results,
          merged, completed, completed_read, lock, callback_log, stdout_log,
          wait_log, fetch_log, use_callback, from_dt, to_dt, current, shifts,
          split_pc, split_str, reorder, extract, simplify, parse, construct, server, sync>>

shiftVars == <<from_dt, to_dt, current, shifts, split_pc>>

appVars == <<construct, server, sync>>

pureVars == <<split_str, reorder, extract, simplify, parse, appVars>>

-----------------------------------------------------------------------------
(* Program constants *)

RetryCount == 3
MaxRateLimitRetries == 5
RequestTimeout == 30
RATE_LIMIT_SECONDS == 30

(* Bounds of the model *)

MaxVehicle == 2
MaxPl == 2
MaxTasks == 2
MaxLongTasks == 5
MaxTokens == 2
MaxDistance == 1

NoWorker == -1

(* split_period_into_shifts is not running *)
NoDateTime == << >>

ShiftsIdle ==
    /\ from_dt = NoDateTime
    /\ to_dt = NoDateTime
    /\ current = NoDateTime
    /\ shifts = << >>
    /\ split_pc = "idle"

(* A function of the string entry point, the extractor or the parser is not running *)
NotCalled == [pc |-> "idle"]

(* no DataFetcher is being constructed, no web request or pipeline is under
   way, no sync is running *)
AppIdle ==
    /\ construct = NotCalled
    /\ server = NotCalled
    /\ sync = NotCalled

PureIdle ==
    /\ split_str = NotCalled
    /\ reorder = NotCalled
    /\ extract = NotCalled
    /\ simplify = NotCalled
    /\ parse = NotCalled
    /\ AppIdle

-----------------------------------------------------------------------------
(* Responses of the remote service to one transport attempt *)

Payloads ==
    {[kind |-> "falsy", distance |-> 0], [kind |-> "illtyped", distance |-> 0]}
    \cup {[kind |-> "dict", distance |-> d] : d \in 1..MaxDistance}

NoPayload == [kind |-> "falsy", distance |-> 0]

ErrorKinds == {"http404", "http429", "http500", "timeout", "connerr", "badjson"}

Responses ==
    {[kind |-> "ok", payload |-> p] : p \in Payloads}
    \cup {[kind |-> k, payload |-> NoPayload] : k \in ErrorKinds}

Resp(k) == [kind |-> k, payload |-> NoPayload]

RECURSIVE Pow2(_)
Pow2(n) == IF n <= 0 THEN 1 ELSE 2 * Pow2(n - 1)

(* The except clause of _make_request that catches the exception raised for
   a response.  The clauses are tried in source order.  response.json() of a
   malformed body raises requests.exceptions.JSONDecodeError, which since
   requests 2.27 derives from both RequestException and json.JSONDecodeError;
   with an older requests it is a plain json.JSONDecodeError. *)
ExceptClause(r, jsonIsReqExc) ==
    CASE r.kind \in {"http404", "http429", "http500"} -> "HTTPError"
      [] r.kind = "timeout" -> "Timeout"
      [] r.kind = "connerr" -> "RequestException"
      [] r.kind = "badjson" -> IF jsonIsReqExc THEN "RequestException" ELSE "JSONDecodeError"
      [] OTHER -> "none"

(* The text kept in last_error by the clause that handled the response *)
ErrorText(r, clause) ==
    CASE clause = "HTTPError" -> "HTTPError 500"
      [] clause = "Timeout" -> "Request timeout"
      [] clause = "RequestException" ->
            IF r.kind = "badjson" THEN "JSONDecodeError" ELSE "ConnectionError"
      [] clause = "JSONDecodeError" -> "Invalid JSON response"
      [] OTHER -> "None"

ClientInit ==
    [attempt |-> 0, rate_limit_retries |-> 0, last_error |-> "None",
     status |-> "loop", message |-> "", data |-> NoPayload,
     sends |-> 0, sleeps |-> << >>, elapsed |-> 0, responses |-> << >>]

(* time.sleep(d) inside _make_request *)
ClientSleep(c, d) ==
    [c EXCEPT !.sleeps = Append(@, d), !.elapsed = @ + d]

(* raise RuntimeError("API request failed after N attempts: last_error") *)
RaiseFailed(c) ==
    [c EXCEPT !.status = "RuntimeError", !.message = "API request failed"]

(* mutant of CountAttempt: backoff exponent off by one *)
CountAttemptBackoffShifted(c) ==
    LET c1 == [c EXCEPT !.attempt = @ + 1] IN
    IF c1.attempt < RetryCount
    THEN ClientSleep(c1, Pow2(c1.attempt))
    ELSE RaiseFailed(c1)

(* mutant of CountAttempt: a counted attempt clears the rate-limit counter *)
CountAttemptClearsRateLimit(c) ==
    LET c1 == [c EXCEPT !.attempt = @ + 1, !.rate_limit_retries = 0] IN
    IF c1.attempt < RetryCount
    THEN ClientSleep(c1, Pow2(c1.attempt - 1))
    ELSE RaiseFailed(c1)

(* attempt += 1; backoff sleep when another attempt follows; the while
   condition is evaluated again and the final raise is reached when it fails *)
CountAttempt(c) ==
    LET c1 == [c EXCEPT !.attempt = @ + 1] IN
    IF c1.attempt < RetryCount
    THEN ClientSleep(c1, Pow2(c1.attempt - 1))
    ELSE RaiseFailed(c1)

(* mutant of RateLimited: the bound is compared with >= *)
RateLimitedBoundInclusive(c) ==
    LET c1 == [c EXCEPT !.rate_limit_retries = @ + 1] IN
    IF c1.rate_limit_retries >= MaxRateLimitRetries
    THEN [c1 EXCEPT !.status = "RuntimeError", !.message = "Rate limited too many times"]
    ELSE ClientSleep(c1, 10 * c1.rate_limit_retries)

(* mutant of RateLimited: a 429 also counts as an attempt *)
RateLimitedCountsAttempt(c) ==
    LET c1 == [c EXCEPT !.rate_limit_retries = @ + 1, !.attempt = @ + 1] IN
    IF c1.rate_limit_retries > MaxRateLimitRetries
    THEN [c1 EXCEPT !.status = "RuntimeError", !.message = "Rate limited too many times"]
    ELSE ClientSleep(c1, 10 * c1.rate_limit_retries)

(* mutant of NotFound: a 404 is handled like any other HTTP error *)
NotFoundRetried(c) ==
    CountAttempt([c EXCEPT !.last_error = "HTTPError 404"])

(* the HTTP 404 branch: raise NotFoundError *)
NotFound(c) ==
    [c EXCEPT !.status = "NotFoundError", !.message = "Resource not found"]

(* mutant of RateLimited: the wait does not grow with the retry number *)
RateLimitedFlatWait(c) ==
    LET c1 == [c EXCEPT !.rate_limit_retries = @ + 1] IN
    IF c1.rate_limit_retries > MaxRateLimitRetries
    THEN [c1 EXCEPT !.status = "RuntimeError", !.message = "Rate limited too many times"]
    ELSE ClientSleep(c1, 10)

(* the HTTP 429 branch *)
RateLimited(c) ==
    LET c1 == [c EXCEPT !.rate_limit_retries = @ + 1] IN
    IF c1.rate_limit_retries > MaxRateLimitRetries
    THEN [c1 EXCEPT !.status = "RuntimeError", !.message = "Rate limited too many times"]
    ELSE ClientSleep(c1, 10 * c1.rate_limit_retries)

(* One iteration of the while loop of _make_request, entered with
   attempt < retry_count, the service answering r. *)
Iterate(c, r, jsonIsReqExc) ==
    LET clause == ExceptClause(r, jsonIsReqExc)
        c0 == [c EXCEPT !.sends = @ + 1,
                        !.responses = Append(@, r.kind),
                        !.elapsed = @ + (IF r.kind = "timeout" THEN RequestTimeout ELSE 0)]
    IN
    CASE r.kind = "ok" -> [c0 EXCEPT !.status = "returned", !.data = r.payload]
      [] r.kind = "http404" -> NotFound(c0)
      [] r.kind = "http429" -> RateLimited(c0)
      [] clause = "JSONDecodeError" ->
            RaiseFailed([c0 EXCEPT !.last_error = ErrorText(r, clause)])
      [] OTHER -> CountAttempt([c0 EXCEPT !.last_error = ErrorText(r, clause)])

-----------------------------------------------------------------------------
(* SpecClient: one call of get_monitoring_stats by worker 0 *)

PoolIdle ==
    /\ tokens = 1
    /\ tasks = << >>
    /\ service = << >>
    /\ main_pc = "client_only"
    /\ task_queues = << >>
    /\ pos = << >>
    /\ pc = << >>
    /\ at = << >>
    /\ last_request_time = << >>
    /\ local_results = << >>
    /\ results = << >>
    /\ merged = << >>
    /\ completed = 0
    /\ completed_read = << >>
    /\ lock = NoWorker
    /\ callback_log = << >>
    /\ stdout_log = << >>
    /\ wait_log = << >>
    /\ fetch_log = << >>
    /\ use_callback = FALSE

poolVars == <<tokens, tasks, service, main_pc, task_queues, pos, pc, at,
              last_request_time, local_results, results, merged, completed, completed_read, lock,
              callback_log, stdout_log, wait_log, fetch_log, use_callback>>

InitClient ==
    /\ json_error_is_request_exception \in BOOLEAN
    /\ client = [w \in {0} |-> ClientInit]
    /\ PoolIdle
    /\ ShiftsIdle
    /\ PureIdle

(* requests.post(...) and the handling of its outcome *)
Attempt(r) ==
    /\ main_pc = "client_only"
    /\ client[0].status = "loop"
    /\ client[0].attempt < RetryCount
    /\ client' = [client EXCEPT ![0] = Iterate(client[0], r, json_error_is_request_exception)]
    /\ UNCHANGED <<pureVars, shiftVars, json_error_is_request_exception, poolVars>>

NextClient == \E r \in Responses : Attempt(r)

SpecClient == InitClient /\ [][NextClient]_vars

-----------------------------------------------------------------------------
(* get_monitoring_stats run to its end against a response script: the k-th
   transport attempt is answered by script[k], the last element answering
   every later attempt. *)

RECURSIVE RunRequest(_, _, _, _)
RunRequest(c, script, k, jsonIsReqExc) ==
    IF c.status # "loop" \/ c.attempt >= RetryCount
    THEN c
    ELSE LET r == script[IF k < Len(script) THEN k ELSE Len(script)]
         IN RunRequest(Iterate(c, r, jsonIsReqExc), script, k + 1, jsonIsReqExc)

Ok(p) == [kind |-> "ok", payload |-> p]

DictPayload == [kind |-> "dict", distance |-> 1]

(* the behaviours of the remote service explored by Spec *)
Scripts ==
    { <<Ok(DictPayload)>>, <<Ok([kind |-> "illtyped", distance |-> 0])>>,
      <<Resp("http404")>>, <<Resp("http429"), Ok(DictPayload)>>,
      <<Resp("timeout")>> }

(* the scripts a vehicle-bound service follows: prompt, slow, unreachable *)
SteadyScripts ==
    { <<Ok(DictPayload)>>, <<Resp("http429"), Ok(DictPayload)>>, <<Resp("timeout")>> }

(* a service that may follow any script at any request *)
FreeService(vehicles) == [v \in vehicles |-> Scripts]

(* a service that answers every request for vehicle 1 at once with a
   well-formed body and follows one script for all other vehicles *)
SteadyServices(vehicles) ==
    {[v \in vehicles |-> IF v = 1 THEN {<<Ok(DictPayload)>>} ELSE {script}] :
        script \in SteadyScripts}

-----------------------------------------------------------------------------
(* parse_monitoring, as far as the collector depends on it *)

NoValue == -1

EmptyMonitoring == [mon_distance |-> NoValue, mon_parkings_count |-> 0]

(* raised: the payload is a dict whose time field is not a number, so the
   division by 3600 raises TypeError *)
ParseMonitoring(p) ==
    CASE p.kind = "falsy" -> [raised |-> FALSE, value |-> EmptyMonitoring]
      [] p.kind = "illtyped" -> [raised |-> TRUE, value |-> EmptyMonitoring]
      [] OTHER -> [raised |-> FALSE,
                   value |-> [mon_distance |-> p.distance, mon_parkings_count |-> 0]]

-----------------------------------------------------------------------------
(* Tasks and maps *)

Vehicles == 1..MaxVehicle
PlIds == 1..MaxPl

TaskDomain == [pl_id : PlIds, ts_id_mo : Vehicles]

(* Vehicle and route-list identifiers are opaque to the collector, and the
   route list of a task matters only against the other tasks of the same
   vehicle.  The lists are therefore taken up to renaming: a vehicle first
   appears after all smaller ones, and so does a route list among the tasks
   of one vehicle. *)
InFirstUseOrder(ids) ==
    \A i \in 1..Len(ids) : \A x \in 1..(ids[i] - 1) : \E j \in 1..(i - 1) : ids[j] = x

PlIdsOf(ts, v) ==
    LET OfVehicle(t) == t.ts_id_mo = v
        mine == SelectSeq(ts, OfVehicle)
    IN [i \in 1..Len(mine) |-> mine[i].pl_id]

(* short lists: any route list and vehicle for each task, so that several
   tasks may carry the same key *)
TaskLists(lo, hi) ==
    {ts \in UNION {[1..n -> TaskDomain] : n \in lo..hi} :
        /\ InFirstUseOrder([i \in 1..Len(ts) |-> ts[i].ts_id_mo])
        /\ \A v \in Vehicles : InFirstUseOrder(PlIdsOf(ts, v))}

(* long lists: one route list per task, any vehicle for each task *)
LongTaskLists(lo, hi) ==
    {[i \in 1..Len(vs) |-> [pl_id |-> i, ts_id_mo |-> vs[i]]] :
        vs \in {x \in UNION {[1..n -> Vehicles] : n \in lo..hi} : InFirstUseOrder(x)}}

Key(task) == <<task.pl_id, task.ts_id_mo>>

EmptyMap == << >>

(* mutant of Update: an entry already present is kept *)
UpdateKeepsFirst(f, g) ==
    [k \in (DOMAIN f) \cup (DOMAIN g) |-> IF k \in DOMAIN f THEN f[k] ELSE g[k]]

(* mutant of Update: entries holding the empty record are not merged *)
UpdateSkipsEmpty(f, g) ==
    LET kept == {k \in DOMAIN g : g[k] # EmptyMonitoring} IN
    [k \in (DOMAIN f) \cup kept |-> IF k \in kept THEN g[k] ELSE f[k]]

(* mutant of Update: the aggregate is replaced by the worker's map *)
UpdateReplaces(f, g) == g

(* dict.update / item assignment *)
Update(f, g) ==
    [k \in (DOMAIN f) \cup (DOMAIN g) |-> IF k \in DOMAIN g THEN g[k] ELSE f[k]]

Put(f, k, v) == [x \in (DOMAIN f) \cup {k} |-> IF x = k THEN v ELSE f[x]]

Workers == 0..(tokens - 1)

-----------------------------------------------------------------------------
(* _reorder_tasks_for_rate_limit; a task list is a sequence of indices into
   ts, the list the caller passed *)

(* mutant of VehicleIds: a vehicle seen later is put in front *)
RECURSIVE VehicleIdsLatestFirst(_, _, _)
VehicleIdsLatestFirst(ts, q, seen) ==
    IF q = << >> THEN seen
    ELSE LET v == ts[Head(q)].ts_id_mo IN
         VehicleIdsLatestFirst(ts, Tail(q),
                    IF \E i \in 1..Len(seen) : seen[i] = v THEN seen ELSE <<v>> \o seen)

RECURSIVE VehicleIds(_, _, _)
VehicleIds(ts, q, seen) ==
    IF q = << >> THEN seen
    ELSE LET v == ts[Head(q)].ts_id_mo IN
         VehicleIds(ts, Tail(q),
                    IF \E i \in 1..Len(seen) : seen[i] = v THEN seen ELSE Append(seen, v))

(* mutant of ByVehicle: each group is built in reverse order *)
ByVehicleReversed(ts, q) ==
    [v \in {ts[q[i]].ts_id_mo : i \in 1..Len(q)} |->
        LET OfVehicle(i) == ts[i].ts_id_mo = v
            group == SelectSeq(q, OfVehicle)
        IN  [i \in 1..Len(group) |-> group[Len(group) + 1 - i]]]

ByVehicle(ts, q) ==
    [v \in {ts[q[i]].ts_id_mo : i \in 1..Len(q)} |->
        LET OfVehicle(i) == ts[i].ts_id_mo = v IN SelectSeq(q, OfVehicle)]

(* mutant of TakeOneEach: a pass empties each group in turn *)
RECURSIVE TakeWholeGroupEach(_, _, _)
TakeWholeGroupEach(by, vids, result) ==
    IF vids = << >> THEN [by |-> by, result |-> result]
    ELSE TakeWholeGroupEach([by EXCEPT ![Head(vids)] = << >>], Tail(vids),
                            result \o by[Head(vids)])

(* one pass of the for loop over vehicle_ids *)
RECURSIVE TakeOneEach(_, _, _)
TakeOneEach(by, vids, result) ==
    IF vids = << >> THEN [by |-> by, result |-> result]
    ELSE LET vid == Head(vids) IN
         IF by[vid] # << >>
         THEN TakeOneEach([by EXCEPT ![vid] = Tail(@)], Tail(vids),
                          Append(result, Head(by[vid])))
         ELSE TakeOneEach(by, Tail(vids), result)

RECURSIVE Interleave(_, _, _)
Interleave(by, vids, result) ==
    IF \A v \in DOMAIN by : by[v] = << >>
    THEN result
    ELSE LET r == TakeOneEach(by, vids, result) IN Interleave(r.by, vids, r.result)

(* mutant of ReorderTasksForRateLimit: the list is kept in input order *)
ReorderKeepsInputOrder(ts, q) == q

ReorderTasksForRateLimit(ts, q) ==
    IF q = << >> THEN q
    ELSE Interleave(ByVehicle(ts, q), VehicleIds(ts, q, << >>), << >>)

-----------------------------------------------------------------------------
(* The loop body shared by _fetch_monitoring_sequential and the worker of
   _fetch_monitoring_parallel *)

(* mutant of WaitTime: the whole cooldown is slept, whatever has elapsed *)
WaitTimeWholeCooldown(lrt, ts_id, now) ==
    IF ts_id \in DOMAIN lrt
    THEN LET elapsed == now - lrt[ts_id] IN
         IF elapsed < RATE_LIMIT_SECONDS THEN RATE_LIMIT_SECONDS ELSE 0
    ELSE 0

(* mutant of WaitTime: the times recorded by all workers are consulted *)
WaitTimeAcrossWorkers(lrt, ts_id, now) ==
    LET seen == {last_request_time[w][ts_id] :
                    w \in {x \in DOMAIN last_request_time :
                              ts_id \in DOMAIN last_request_time[x]}}
    IN IF \E t \in seen : now - t < RATE_LIMIT_SECONDS /\ now - t >= 0
       THEN RATE_LIMIT_SECONDS ELSE 0

(* mutant of WaitTime: the worker never waits *)
WaitTimeNever(lrt, ts_id, now) == 0

(* the sleep of the rate-limit check *)
WaitTime(lrt, ts_id, now) ==
    IF ts_id \in DOMAIN lrt
    THEN LET elapsed == now - lrt[ts_id] IN
         IF elapsed < RATE_LIMIT_SECONDS THEN RATE_LIMIT_SECONDS - elapsed ELSE 0
    ELSE 0

(* the exception, if any, with which the try block ends *)
TryException(c) ==
    CASE c.status = "NotFoundError" -> "NotFoundError"
      [] c.status = "RuntimeError" -> "RuntimeError"
      [] c.status = "returned" /\ ParseMonitoring(c.data).raised -> "TypeError"
      [] OTHER -> "none"

(* mutant of Handler: only NotFoundError is caught *)
HandlerOnlyNotFound(exc) ==
    CASE exc = "NotFoundError" -> "except NotFoundError"
      [] OTHER -> "none"

(* the except clause of the loop body that handles an exception *)
Handler(exc) ==
    CASE exc = "NotFoundError" -> "except NotFoundError"
      [] exc \in {"RuntimeError", "TypeError"} -> "except Exception"
      [] OTHER -> "none"

(* the value stored under the task's key *)
StoredValue(c) ==
    IF TryException(c) = "none" THEN ParseMonitoring(c.data).value
    ELSE ParseMonitoring(NoPayload).value

Outcome(c) ==
    CASE c.status = "returned" -> "Success"
      [] c.status = "NotFoundError" -> "NotFound"
      [] OTHER -> "Fatal"

(* mutant of RecordedTime: the time before the request is recorded *)
RecordedTimeAtIssue(issued, c) == issued

(* time.time() read after get_monitoring_stats returned or raised *)
RecordedTime(issued, c) == issued + c.elapsed

CurrentIndex(w) == task_queues[w][pos[w]]
CurrentTask(w) == tasks[CurrentIndex(w)]

(* One pass through the loop body up to the progress report: the rate-limit
   check and its sleep, then try: get_monitoring_stats, parse, store;
   except: store the empty record.  Only state of worker w is touched. *)
FetchTask(w, script) ==
    /\ pc[w] = "fetch"
    /\ LET task == CurrentTask(w)
           ts_id == task.ts_id_mo
           wait == WaitTime(last_request_time[w], ts_id, at[w])
           issued == at[w] + wait
           c == RunRequest(ClientInit, script, 1, json_error_is_request_exception)
           done == RecordedTime(issued, c)
           exc == TryException(c)
           handled == exc = "none" \/ Handler(exc) # "none"
       IN /\ wait_log' = [wait_log EXCEPT ![w] =
                Append(@, [task |-> CurrentIndex(w), ts_id_mo |-> ts_id,
                           now |-> at[w], slept |-> wait])]
          /\ client' = [client EXCEPT ![w] = c]
          /\ at' = [at EXCEPT ![w] = done]
          /\ last_request_time' = [last_request_time EXCEPT ![w] =
                IF handled THEN Put(@, ts_id, done) ELSE @]
          /\ local_results' = [local_results EXCEPT ![w] =
                IF handled THEN Put(@, Key(task), StoredValue(c)) ELSE @]
          /\ fetch_log' = [fetch_log EXCEPT ![w] =
                Append(@, [task |-> CurrentIndex(w), ts_id_mo |-> ts_id,
                           key |-> Key(task), issued |-> issued, recorded |-> done,
                           outcome |-> Outcome(c), payload |-> c.data,
                           sends |-> c.sends])]
          /\ pc' = [pc EXCEPT ![w] = IF handled THEN "progress" ELSE "raised"]
    /\ UNCHANGED <<pureVars, shiftVars, json_error_is_request_exception, tokens, tasks, service, main_pc,
                   task_queues, pos, results, merged, completed, completed_read, lock, callback_log,
                   stdout_log, use_callback>>

(* the for loop moves to the next task, or the function returns *)
Advance(w) ==
    /\ pos' = [pos EXCEPT ![w] = @ + 1]
    /\ pc' = [pc EXCEPT ![w] = IF pos[w] < Len(task_queues[w]) THEN "fetch" ELSE "done"]

-----------------------------------------------------------------------------
(* fetch_monitoring_batch with one token: _fetch_monitoring_sequential *)

StartSequential ==
    /\ main_pc = "call"
    /\ tokens = 1
    /\ main_pc' = "sequential"
    /\ task_queues' = [w \in {0} |-> ReorderTasksForRateLimit(tasks, [i \in 1..Len(tasks) |-> i])]
    /\ pos' = [w \in {0} |-> 1]
    /\ pc' = [w \in {0} |-> IF tasks = << >> THEN "done" ELSE "fetch"]
    /\ at' = [w \in {0} |-> 0]
    /\ last_request_time' = [w \in {0} |-> EmptyMap]
    /\ local_results' = [w \in {0} |-> EmptyMap]
    /\ client' = [w \in {0} |-> ClientInit]
    /\ wait_log' = [w \in {0} |-> << >>]
    /\ fetch_log' = [w \in {0} |-> << >>]
    /\ UNCHANGED <<pureVars, shiftVars, json_error_is_request_exception, tokens, tasks, service, results,
                   merged, completed, completed_read, lock, callback_log, stdout_log, use_callback>>

SeqFetch ==
    /\ main_pc = "sequential"
    /\ pc[0] = "fetch"
    /\ \E script \in service[CurrentTask(0).ts_id_mo] : FetchTask(0, script)

(* progress_callback(i + 1, total), or the line written every tenth task *)
SeqProgress ==
    /\ main_pc = "sequential"
    /\ pc[0] = "progress"
    /\ LET n == pos[0]
           total == Len(tasks)
       IN IF use_callback
          THEN /\ callback_log' = Append(callback_log, <<n, total>>)
               /\ UNCHANGED stdout_log
          ELSE /\ stdout_log' = IF n % 10 = 0 \/ n = total
                                THEN Append(stdout_log, <<n, total>>) ELSE stdout_log
               /\ UNCHANGED callback_log
    /\ Advance(0)
    /\ UNCHANGED <<pureVars, shiftVars, json_error_is_request_exception, client, tokens, tasks, service,
                   main_pc, task_queues, at, last_request_time, local_results, results,
                   merged, completed, completed_read, lock, wait_log, fetch_log, use_callback>>

(* return results, or the exception that left the loop reaches the caller *)
SeqReturn ==
    /\ main_pc = "sequential"
    /\ pc[0] \in {"done", "raised"}
    /\ main_pc' = IF pc[0] = "done" THEN "returned" ELSE "raised"
    /\ results' = IF pc[0] = "done" THEN local_results[0] ELSE results
    /\ UNCHANGED <<pureVars, shiftVars, json_error_is_request_exception, client, tokens, tasks, service,
                   task_queues, pos, pc, at, last_request_time, local_results, merged,
                   completed, completed_read, lock, callback_log, stdout_log, wait_log, fetch_log,
                   use_callback>>

-----------------------------------------------------------------------------
(* fetch_monitoring_batch with several tokens: _fetch_monitoring_parallel *)

(* mutant of QueueOf: the index is counted from 1 *)
QueueOfCountedFromOne(i, n) == i % n

(* task_queues[i % len(clients)].append(task), i counted from 0 *)
QueueOf(i, n) == (i - 1) % n

Distribute(ts, n) ==
    [w \in 0..(n - 1) |->
        LET Mine(i) == QueueOf(i, n) = w IN SelectSeq([i \in 1..Len(ts) |-> i], Mine)]

(* the task list a worker iterates over *)
WorkerTaskList(ts, q) == q

StartParallel ==
    /\ main_pc = "call"
    /\ tokens > 1
    /\ main_pc' = "as_completed"
    /\ task_queues' = [w \in Workers |-> WorkerTaskList(tasks, Distribute(tasks, tokens)[w])]
    /\ pos' = [w \in Workers |-> 1]
    /\ pc' = [w \in Workers |-> IF Distribute(tasks, tokens)[w] = << >> THEN "done" ELSE "fetch"]
    /\ at' = [w \in Workers |-> 0]
    /\ last_request_time' = [w \in Workers |-> EmptyMap]
    /\ local_results' = [w \in Workers |-> EmptyMap]
    /\ client' = [w \in Workers |-> ClientInit]
    /\ wait_log' = [w \in Workers |-> << >>]
    /\ fetch_log' = [w \in Workers |-> << >>]
    /\ completed_read' = [w \in Workers |-> 0]
    /\ UNCHANGED <<pureVars, shiftVars, json_error_is_request_exception, tokens, tasks, service, results,
                   merged, completed, lock, callback_log, stdout_log, use_callback>>

WorkerFetch(w) ==
    /\ main_pc = "as_completed"
    /\ pc[w] = "fetch"
    /\ \E script \in service[CurrentTask(w).ts_id_mo] : FetchTask(w, script)

(* mutant of CanAcquire: the lock excludes nobody *)
CanAcquireAlways(l) == TRUE

(* threading.Lock.acquire returns when the lock is free *)
CanAcquire(l) == l = NoWorker

(* with lock: and the load of completed[0] that begins `completed[0] += 1` *)
WorkerAcquire(w) ==
    /\ main_pc = "as_completed"
    /\ pc[w] = "progress"
    /\ CanAcquire(lock)
    /\ lock' = w
    /\ completed_read' = [completed_read EXCEPT ![w] = completed]
    /\ pc' = [pc EXCEPT ![w] = "locked"]
    /\ UNCHANGED <<pureVars, shiftVars, json_error_is_request_exception, client, tokens, tasks, service,
                   main_pc, task_queues, pos, at, last_request_time, local_results,
                   results, merged, completed, callback_log, stdout_log, wait_log,
                   fetch_log, use_callback>>

(* the store that ends `completed[0] += 1`, the progress line, release of
   the lock *)
WorkerProgress(w) ==
    /\ main_pc = "as_completed"
    /\ pc[w] = "locked"
    /\ completed' = completed_read[w] + 1
    /\ completed_read' = [completed_read EXCEPT ![w] = 0]
    /\ stdout_log' = IF completed' % 10 = 0 \/ completed' = Len(tasks)
                     THEN Append(stdout_log, <<completed', Len(tasks)>>) ELSE stdout_log
    /\ lock' = NoWorker
    /\ Advance(w)
    /\ UNCHANGED <<pureVars, shiftVars, json_error_is_request_exception, client, tokens, tasks, service,
                   main_pc, task_queues, at, last_request_time, local_results, results,
                   merged, callback_log, wait_log, fetch_log, use_callback>>

(* for future in as_completed(futures): results.update(future.result()), or
   the worker's exception is logged *)
Merge(w) ==
    /\ main_pc = "as_completed"
    /\ pc[w] \in {"done", "raised"}
    /\ \A i \in 1..Len(merged) : merged[i] # w
    /\ merged' = Append(merged, w)
    /\ results' = IF pc[w] = "done" THEN Update(results, local_results[w]) ELSE results
    /\ UNCHANGED <<pureVars, shiftVars, json_error_is_request_exception, client, tokens, tasks, service,
                   main_pc, task_queues, pos, pc, at, last_request_time, local_results,
                   completed, completed_read, lock, callback_log, stdout_log, wait_log, fetch_log,
                   use_callback>>

ParReturn ==
    /\ main_pc = "as_completed"
    /\ Len(merged) = tokens
    /\ main_pc' = "returned"
    /\ UNCHANGED <<pureVars, shiftVars, json_error_is_request_exception, client, tokens, tasks, service,
                   task_queues, pos, pc, at, last_request_time, local_results, results,
                   merged, completed, completed_read, lock, callback_log, stdout_log, wait_log,
                   fetch_log, use_callback>>

-----------------------------------------------------------------------------
(* Spec: a call of fetch_monitoring_batch.  Lists of up to MaxTasks tasks are
   run against a service that is free at every request, longer lists (up to
   MaxLongTasks) against a service whose answer depends on the vehicle.
   No script of Spec sends a malformed body, the only response for which
   the class of requests' JSONDecodeError matters. *)

Init ==
    /\ json_error_is_request_exception = TRUE
    /\ tokens \in 1..MaxTokens
    /\ \/ /\ tasks \in TaskLists(0, MaxTasks)
          /\ service = FreeService(Vehicles)
       \/ /\ tasks \in LongTaskLists(MaxTasks + 1, MaxLongTasks)
          /\ service \in SteadyServices(Vehicles)
    /\ use_callback \in (IF tokens = 1 THEN BOOLEAN ELSE {TRUE})
    /\ main_pc = "call"
    /\ client = << >>
    /\ task_queues = << >>
    /\ pos = << >>
    /\ pc = << >>
    /\ at = << >>
    /\ last_request_time = << >>
    /\ local_results = << >>
    /\ results = EmptyMap
    /\ merged = << >>
    /\ completed = 0
    /\ completed_read = << >>
    /\ lock = NoWorker
    /\ callback_log = << >>
    /\ stdout_log = << >>
    /\ wait_log = << >>
    /\ fetch_log = << >>
    /\ ShiftsIdle
    /\ PureIdle

Next ==
    \/ StartSequential
    \/ SeqFetch
    \/ SeqProgress
    \/ SeqReturn
    \/ StartParallel
    \/ \E w \in Workers : WorkerFetch(w)
    \/ \E w \in Workers : WorkerAcquire(w)
    \/ \E w \in Workers : WorkerProgress(w)
    \/ \E w \in Workers : Merge(w)
    \/ ParReturn

Spec == Init /\ [][Next]_vars

-----------------------------------------------------------------------------
(* Properties of _make_request *)

Last(s) == s[Len(s)]

Count(s, kinds) == Cardinality({i \in 1..Len(s) : s[i] \in kinds})

IsBackoff(d) == d < 10

BackoffSleeps(c) == SelectSeq(c.sleeps, IsBackoff)

Repeat(x, n) == [i \in 1..n |-> x]

TransientKinds == {"http500", "timeout", "connerr"}

(* C4: a 404 response ends the call as NotFound at once, whatever the
   counters are: the 404 is the last response, no sleep follows it (every
   earlier response was followed by exactly one sleep), and a call whose
   first response is 404 made one transport attempt and never slept. *)
C4_NotFoundImmediate ==
    \A w \in DOMAIN client :
        LET c == client[w] IN
        \A i \in 1..Len(c.responses) :
            c.responses[i] = "http404" =>
                /\ i = Len(c.responses)
                /\ c.status = "NotFoundError"
                /\ c.sends = i
                /\ Len(c.sleeps) = i - 1
                /\ (i = 1 => c.sends = 1 /\ c.sleeps = << >> /\ c.elapsed = 0)

C4_Witness ==
    \E w \in DOMAIN client :
        /\ Len(client[w].responses) > 1
        /\ Last(client[w].responses) = "http404"
        /\ client[w].rate_limit_retries > 0
        /\ client[w].attempt > 0

(* C5 as stated: five consecutive 429 responses end the call as Fatal with
   five transport attempts made. *)
C5_FatalAfterFifth429 ==
    \A w \in DOMAIN client :
        client[w].responses = Repeat("http429", 5) =>
            client[w].status = "RuntimeError" /\ client[w].sends = 5

(* C5 amended: the fifth consecutive 429 is followed by a sleep of 50 and a
   sixth attempt; the sixth consecutive 429 ends the call as Fatal ("Rate
   limited too many times") and no seventh attempt is made. *)
C5_FatalAfterSixth429 ==
    \A w \in DOMAIN client :
        LET c == client[w] IN
        /\ c.responses = Repeat("http429", 5) =>
              c.status = "loop" /\ c.sleeps = <<10, 20, 30, 40, 50>>
        /\ (Len(c.responses) >= 6 /\ SubSeq(c.responses, 1, 6) = Repeat("http429", 6)) =>
              /\ c.status = "RuntimeError"
              /\ c.message = "Rate limited too many times"
              /\ c.sends = 6
              /\ Len(c.responses) = 6

C5_Witness ==
    \E w \in DOMAIN client :
        client[w].responses = Repeat("http429", 6) /\ client[w].status = "RuntimeError"

(* C6: timeouts and transport errors are retried at most RetryCount times,
   the k-th failed attempt is followed by a sleep of 2^(k-1) when another
   attempt follows, and after RetryCount failed attempts the call ends as
   Fatal carrying the text of the last error. *)
C6_TransientRetried ==
    \A w \in DOMAIN client :
        LET c == client[w]
            n == IF c.attempt < RetryCount THEN c.attempt ELSE RetryCount - 1
        IN
        /\ Count(c.responses, TransientKinds) <= c.attempt
        /\ c.attempt <= RetryCount
        /\ BackoffSleeps(c) = [k \in 1..n |-> Pow2(k - 1)]
        /\ (c.status = "loop" /\ c.responses # << >> /\ Last(c.responses) \in TransientKinds) =>
              c.attempt < RetryCount /\ Last(c.sleeps) = Pow2(c.attempt - 1)
        /\ c.attempt = RetryCount =>
              /\ c.status = "RuntimeError"
              /\ c.message = "API request failed"
              /\ c.last_error = ErrorText(Resp(Last(c.responses)),
                                          ExceptClause(Resp(Last(c.responses)),
                                                       json_error_is_request_exception))

C6_Witness ==
    \E w \in DOMAIN client :
        /\ client[w].responses = <<"timeout", "connerr", "timeout">>
        /\ client[w].status = "RuntimeError"
        /\ client[w].last_error = "Request timeout"
        /\ client[w].sleeps = <<1, 2>>

(* C7 as stated: a malformed body ends the call as Fatal at once; it is the
   last response of the call and no sleep follows it. *)
C7_MalformedNoRetry ==
    \A w \in DOMAIN client :
        LET c == client[w] IN
        \A i \in 1..Len(c.responses) :
            c.responses[i] = "badjson" =>
                /\ i = Len(c.responses)
                /\ c.status = "RuntimeError"
                /\ Len(c.sleeps) = i - 1

(* C8: a 429 response increments only rate_limit_retries: the attempt
   counter counts the responses handled as failed attempts and never the
   429s, so RetryCount such attempts remain possible after five 429s. *)
C8_RateLimitNotAnAttempt ==
    \A w \in DOMAIN client :
        LET c == client[w]
            counted == TransientKinds \cup
                       (IF json_error_is_request_exception THEN {"badjson"} ELSE {})
        IN
        /\ c.rate_limit_retries = Count(c.responses, {"http429"})
        /\ c.attempt = Count(c.responses, counted)
        /\ (c.status = "loop" /\ c.attempt = 0) =>
              c.rate_limit_retries <= MaxRateLimitRetries

C8_Witness ==
    \E w \in DOMAIN client :
        /\ client[w].rate_limit_retries = MaxRateLimitRetries
        /\ client[w].attempt = RetryCount
        /\ client[w].sends = MaxRateLimitRetries + RetryCount
        /\ SubSeq(client[w].responses, 1, 5) = Repeat("http429", 5)

-----------------------------------------------------------------------------
(* Properties of fetch_monitoring_batch *)

Entries == UNION {{<<w, j>> : j \in 1..Len(fetch_log[w])} : w \in DOMAIN fetch_log}

EntryAt(e) == fetch_log[e[1]][e[2]]

InputKeys == {Key(tasks[i]) : i \in 1..Len(tasks)}

(* the summary the collector keeps for a payload *)
ParsedSummary(p) ==
    IF ParseMonitoring(p).raised THEN EmptyMonitoring ELSE ParseMonitoring(p).value

(* the entry a finished fetch calls for *)
Expected(e) ==
    IF e.outcome = "Success" THEN ParsedSummary(e.payload) ELSE EmptyMonitoring

MergeRank(w) ==
    IF tokens = 1 THEN 1
    ELSE CHOOSE i \in 1..Len(merged) : merged[i] = w

(* the fetch whose result is written last under key k: the last one of the
   worker that is merged last among the workers that fetched k *)
LastWritten(k) ==
    LET writers == {e \in Entries : EntryAt(e).key = k}
    IN CHOOSE e \in writers :
          \A f \in writers :
              \/ MergeRank(f[1]) < MergeRank(e[1])
              \/ (f[1] = e[1] /\ f[2] <= e[2])

(* C1 as stated: when collect has returned, the aggregate map holds exactly
   the task keys of the input, and for every task the entry under its key is
   the parsed summary when its fetch succeeded and the Empty summary when it
   ended NotFound or Fatal. *)
C1_EntryPerTask ==
    main_pc = "returned" =>
        /\ DOMAIN results = InputKeys
        /\ \A e \in Entries : results[EntryAt(e).key] = Expected(EntryAt(e))

(* C1 amended: the aggregate map holds exactly the task keys of the input;
   the entry under a key is the parsed summary / Empty summary of the task
   with that key, and when several tasks carry the key, of the one whose
   result was written last. *)
C1_EntryPerKey ==
    main_pc = "returned" =>
        /\ DOMAIN results = InputKeys
        /\ \A i \in 1..Len(tasks) : \E e \in Entries : EntryAt(e).task = i
        /\ \A k \in InputKeys : results[k] = Expected(EntryAt(LastWritten(k)))
        /\ \A e \in Entries :
              Cardinality({i \in 1..Len(tasks) : Key(tasks[i]) = EntryAt(e).key}) = 1 =>
                  results[EntryAt(e).key] = Expected(EntryAt(e))

C1_Witness ==
    /\ main_pc = "returned"
    /\ tokens > 1
    /\ Len(tasks) > Cardinality(InputKeys)
    /\ {EntryAt(e).outcome : e \in Entries} = {"Success", "Fatal"}
    /\ \E k \in InputKeys : results[k] # EmptyMonitoring

(* C2: a Fatal outcome never aborts the batch: no worker loop is left by an
   exception, a worker that has finished has fetched every task of its list
   (those after a Fatal one included), and collect returns normally. *)
C2_FatalIsolated ==
    /\ main_pc # "raised"
    /\ \A w \in DOMAIN pc :
          /\ pc[w] # "raised"
          /\ pc[w] = "done" =>
                [j \in 1..Len(fetch_log[w]) |-> fetch_log[w][j].task] = task_queues[w]
          /\ \A j \in 1..Len(fetch_log[w]) :
                (fetch_log[w][j].outcome = "Fatal" /\ j < Len(task_queues[w])) =>
                    \/ pc[w] \in {"progress", "locked"} /\ pos[w] = j
                    \/ pos[w] > j
    /\ main_pc = "returned" => \A w \in DOMAIN pc : pc[w] = "done"

C2_Witness ==
    /\ main_pc = "returned"
    /\ tokens > 1
    /\ \E w \in DOMAIN fetch_log :
          /\ Len(fetch_log[w]) >= 2
          /\ fetch_log[w][1].outcome = "Fatal"
          /\ fetch_log[w][2].outcome = "Success"
    /\ \E k \in InputKeys : results[k] # EmptyMonitoring

(* C3: before a request the worker sleeps exactly cooldown - elapsed when
   it has itself recorded a request time for the task's vehicle less than
   cooldown ago, and does not sleep otherwise; times recorded for other
   vehicles play no part. *)
C3_RateLimiterWait ==
    \A w \in DOMAIN wait_log :
        \A i \in 1..Len(wait_log[w]) :
            LET e == wait_log[w][i]
                prev == {j \in 1..(i - 1) : fetch_log[w][j].ts_id_mo = e.ts_id_mo}
            IN /\ fetch_log[w][i].issued = e.now + e.slept
               /\ IF prev = {} THEN e.slept = 0
                  ELSE LET j == CHOOSE x \in prev : \A y \in prev : y <= x
                           elapsed == e.now - fetch_log[w][j].recorded
                       IN e.slept = IF elapsed < RATE_LIMIT_SECONDS
                                    THEN RATE_LIMIT_SECONDS - elapsed ELSE 0

C3_Witness ==
    \E w \in DOMAIN wait_log :
        /\ Len(wait_log[w]) = 3
        /\ wait_log[w][1].ts_id_mo = wait_log[w][3].ts_id_mo
        /\ wait_log[w][2].ts_id_mo # wait_log[w][1].ts_id_mo
        /\ wait_log[w][2].slept = 0
        /\ wait_log[w][3].slept > 0
        /\ wait_log[w][3].slept < RATE_LIMIT_SECONDS

(* C9: with several tokens, input task i (counted from 0) is in the list of
   worker i mod N and in no other list, once; it is fetched at most once,
   by that worker, and exactly once when collect has returned. *)
C9_RoundRobinPartition ==
    (tokens > 1 /\ main_pc # "call") =>
        \A i \in 1..Len(tasks) :
            /\ \A w \in Workers :
                  Cardinality({j \in 1..Len(task_queues[w]) : task_queues[w][j] = i})
                      = IF w = (i - 1) % tokens THEN 1 ELSE 0
            /\ Cardinality({e \in Entries : EntryAt(e).task = i}) <= 1
            /\ \A e \in Entries : EntryAt(e).task = i => e[1] = (i - 1) % tokens
            /\ main_pc = "returned" =>
                  Cardinality({e \in Entries : EntryAt(e).task = i}) = 1

C9_Witness ==
    /\ tokens > 1
    /\ main_pc = "returned"
    /\ Len(tasks) = 5
    /\ Cardinality(Entries) = 5

(* C10 as stated: with several tokens every worker fetches the tasks of its
   partition in the order _reorder_tasks_for_rate_limit gives for that
   partition. *)
C10_WorkerInterleavedOrder ==
    (tokens > 1 /\ main_pc # "call") =>
        \A w \in Workers :
            LET order == ReorderTasksForRateLimit(tasks, Distribute(tasks, tokens)[w])
            IN \A j \in 1..Len(fetch_log[w]) : fetch_log[w][j].task = order[j]

-----------------------------------------------------------------------------
(* Order of the sequential loop *)

(* how many earlier tasks of the input reference the vehicle of task i *)
Round(i) == Cardinality({j \in 1..(i - 1) : tasks[j].ts_id_mo = tasks[i].ts_id_mo})

(* the index at which the vehicle of task i first appears in the input *)
FirstSeen(i) ==
    CHOOSE j \in 1..i :
        /\ tasks[j].ts_id_mo = tasks[i].ts_id_mo
        /\ \A k \in 1..(j - 1) : tasks[k].ts_id_mo # tasks[i].ts_id_mo

(* task i comes before task j in the round robin over the vehicle groups *)
InterleavedBefore(i, j) ==
    \/ Round(i) < Round(j)
    \/ (Round(i) = Round(j) /\ FirstSeen(i) < FirstSeen(j))

(* C11: with one token there is one loop (worker 0); the k-th fetch it
   issues is for the k-th task of the round-robin interleaving of the input
   (round by round, vehicles in first-appearance order); a fetch is issued
   only after the previous one has ended; when the call has returned every
   task was fetched exactly once. *)
C11_SequentialInterleavedOrder ==
    (tokens = 1 /\ main_pc \in {"sequential", "returned", "raised"}) =>
        LET log == fetch_log[0] IN
        /\ DOMAIN fetch_log = {0}
        /\ DOMAIN pc = {0}
        /\ \A j, k \in 1..Len(log) : j < k => InterleavedBefore(log[j].task, log[k].task)
        /\ \A j \in 1..(Len(log) - 1) : log[j].recorded <= log[j + 1].issued
        /\ \A i \in 1..Len(tasks) :
              Cardinality({j \in 1..Len(log) : log[j].task = i}) <= 1
        /\ main_pc = "returned" =>
              \A i \in 1..Len(tasks) : \E j \in 1..Len(log) : log[j].task = i

C11_Witness ==
    /\ tokens = 1
    /\ main_pc = "returned"
    /\ Len(tasks) >= 4
    /\ \E j \in 1..Len(fetch_log[0]) : fetch_log[0][j].task # j
    /\ \E j \in 1..(Len(fetch_log[0]) - 1) :
          fetch_log[0][j].ts_id_mo = fetch_log[0][j + 1].ts_id_mo

-----------------------------------------------------------------------------
(* Progress reports *)

RECURSIVE SumOver(_, _)
SumOver(f, S) ==
    IF S = {} THEN 0
    ELSE LET x == CHOOSE y \in S : TRUE IN f[x] + SumOver(f, S \ {x})

(* the number of tasks whose loop body has been left *)
TasksCompleted == SumOver([w \in DOMAIN pos |-> pos[w] - 1], DOMAIN pos)

(* C12 as stated: when a callback was passed, it has been called once for
   every completed task, Empty outcomes included, the k-th call with
   (k, total), with one token and with several. *)
C12_CallbackAfterEveryTask ==
    (use_callback /\ main_pc \in {"sequential", "as_completed", "returned"}) =>
        callback_log = [k \in 1..TasksCompleted |-> <<k, Len(tasks)>>]

(* all tasks of the input reference one vehicle *)
SingleVehicle == \A i, j \in 1..Len(tasks) : tasks[i].ts_id_mo = tasks[j].ts_id_mo

(* C13: one token, a callback, N tasks of one vehicle: consecutive requests
   are recorded at least the cooldown apart, so when the call has returned at
   least (N-1) * cooldown has elapsed; the callback was called exactly N
   times, the k-th call with (k, N), and during the run once per task done. *)
C13_SingleVehicleRun ==
    (tokens = 1 /\ use_callback /\ SingleVehicle
        /\ main_pc \in {"sequential", "returned"}) =>
        LET N == Len(tasks)
            log == fetch_log[0]
        IN /\ callback_log = [k \in 1..TasksCompleted |-> <<k, N>>]
           /\ \A j \in 1..(Len(log) - 1) :
                 log[j + 1].issued >= log[j].recorded + RATE_LIMIT_SECONDS
           /\ main_pc = "returned" =>
                 /\ Len(callback_log) = N
                 /\ N >= 1 => at[0] >= (N - 1) * RATE_LIMIT_SECONDS

C13_Witness ==
    /\ tokens = 1
    /\ use_callback
    /\ SingleVehicle
    /\ main_pc = "returned"
    /\ Len(tasks) = 3
    /\ callback_log = <<<<1, 3>>, <<2, 3>>, <<3, 3>>>>
    /\ at[0] = 2 * RATE_LIMIT_SECONDS

-----------------------------------------------------------------------------
(* Workers of the parallel path *)

(* the time worker w recorded for its latest request for vehicle v among its
   first n fetches, or NoValue *)
OwnLastRecorded(w, v, n) ==
    LET mine == {j \in 1..n : fetch_log[w][j].ts_id_mo = v} IN
    IF mine = {} THEN NoValue
    ELSE fetch_log[w][CHOOSE j \in mine : \A k \in mine : k <= j].recorded

(* C14: with several tokens the wait before a request depends on the
   worker's own earlier requests only: a worker that has not itself
   requested the vehicle before does not wait, whatever the other workers
   have requested, and otherwise it waits for the rest of the cooldown
   counted from its own latest request for the vehicle. *)
C14_CooldownPerWorkerOnly ==
    (tokens > 1 /\ main_pc \in {"as_completed", "returned"}) =>
        \A w \in Workers : \A j \in 1..Len(wait_log[w]) :
            LET chk == wait_log[w][j]
                own == OwnLastRecorded(w, chk.ts_id_mo, j - 1)
            IN IF own = NoValue \/ chk.now - own >= RATE_LIMIT_SECONDS
               THEN chk.slept = 0
               ELSE chk.slept = RATE_LIMIT_SECONDS - (chk.now - own)

(* two workers have issued requests for one vehicle less than the cooldown
   apart, the later of the two without any wait *)
C14_Witness ==
    /\ tokens > 1
    /\ main_pc \in {"as_completed", "returned"}
    /\ \E w1, w2 \in Workers :
          /\ w1 # w2
          /\ \E j1 \in 1..Len(fetch_log[w1]) : \E j2 \in 1..Len(fetch_log[w2]) :
                LET f1 == fetch_log[w1][j1]
                    f2 == fetch_log[w2][j2]
                IN /\ f1.ts_id_mo = f2.ts_id_mo
                   /\ f1.issued <= f2.issued
                   /\ f2.issued - f1.issued < RATE_LIMIT_SECONDS
                   /\ f1.recorded <= f2.issued
                   /\ wait_log[w2][j2].slept = 0

(* the workers whose local map holds key k and whose future was consumed *)
MergedWriters(k) ==
    {w \in Workers : k \in DOMAIN local_results[w] /\ \E i \in 1..Len(merged) : merged[i] = w}

(* the one of them that was merged last *)
LastMerged(S) ==
    CHOOSE w \in S : \A x \in S : MergeRank(x) <= MergeRank(w)

(* C15: in the parallel path the aggregate entry of a key is the entry of
   the local map merged last among the workers that produced the key, and
   the merge order is not fixed: every finished worker not yet merged can be
   the next one merged. *)
C15_LaterMergeWins ==
    (tokens > 1 /\ main_pc \in {"as_completed", "returned"}) =>
        /\ \A k \in InputKeys :
              IF MergedWriters(k) = {} THEN k \notin DOMAIN results
              ELSE results[k] = local_results[LastMerged(MergedWriters(k))][k]
        /\ main_pc = "as_completed" =>
              \A w \in Workers :
                  (pc[w] = "done" /\ \A i \in 1..Len(merged) : merged[i] # w)
                      => ENABLED Merge(w)

(* two tasks with one key went to workers 0 and 1, which produced different
   results; worker 1 was merged first and the aggregate holds the result of
   worker 0 *)
C15_Witness ==
    /\ tokens = 2
    /\ main_pc = "returned"
    /\ Len(tasks) = 2
    /\ Key(tasks[1]) = Key(tasks[2])
    /\ local_results[0][Key(tasks[1])] # local_results[1][Key(tasks[1])]
    /\ merged = <<1, 0>>
    /\ results[Key(tasks[1])] = local_results[0][Key(tasks[1])]

(* the shared counter agrees with the work done, and the lock has one holder *)
CounterConsistent ==
    (tokens > 1 /\ main_pc \in {"as_completed", "returned"}) =>
        /\ completed = TasksCompleted
        /\ completed <= Len(tasks)
        /\ (\A w \in Workers : pc[w] = "done") => completed = Len(tasks)
        /\ \A w \in Workers : pc[w] = "locked" <=> lock = w

(* a step changes the local result map and the last-request map of a worker
   only when it is that worker's own fetch, and then those of no other
   worker; the counter changes only by one, by the worker that holds the
   lock; the aggregate map changes only by a merge of the main thread *)
WorkerStepLocal ==
    main_pc = "as_completed" =>
        /\ \A w \in Workers :
              (local_results'[w] # local_results[w]
                  \/ last_request_time'[w] # last_request_time[w]) =>
                  /\ pc[w] = "fetch"
                  /\ pc'[w] = "progress"
                  /\ \A x \in Workers \ {w} :
                        /\ local_results'[x] = local_results[x]
                        /\ last_request_time'[x] = last_request_time[x]
                        /\ pc'[x] = pc[x]
        /\ completed' # completed =>
              /\ completed' = completed + 1
              /\ lock \in Workers
              /\ pc[lock] = "locked"
              /\ pc'[lock] # "locked"
              /\ lock' = NoWorker
        /\ results' # results => Len(merged') = Len(merged) + 1

(* C16: workers write only their own local result map and last-request map;
   the shared counter is incremented only by the holder of the lock, one
   holder at a time, so it always equals the number of tasks completed,
   never exceeds the number of tasks and equals it when all workers have
   finished; the aggregate map is written by the merge only. *)
C16_WorkersShareOnlyCounter == []CounterConsistent /\ [][WorkerStepLocal]_vars

(* worker 0 holds the lock while worker 1 waits for it, after an earlier
   increment *)
C16_Witness ==
    /\ tokens > 1
    /\ main_pc = "as_completed"
    /\ lock = 0
    /\ pc[0] = "locked"
    /\ pc[1] = "progress"
    /\ completed >= 1
    /\ local_results[0] # local_results[1]

-----------------------------------------------------------------------------
(* src/tyagachi/src/web/shifts.py.  A datetime is a record of its fields
   year, month, day, hour, minute, second; a date string "DD.MM.YYYY" is the
   sequence of its eight digits; a shift key "DD.MM.YYYY_type" is the pair
   of its date string and its type, which rsplit('_', 1) recovers. *)

MORNING_START == <<7, 30>>
MORNING_END == <<19, 30>>
EVENING_START == <<19, 30>>
EVENING_END == <<7, 30>>

DateTime(y, mo, d, h, mi, s) ==
    [year |-> y, month |-> mo, day |-> d, hour |-> h, minute |-> mi, second |-> s]

AsTuple(dt) == <<dt.year, dt.month, dt.day, dt.hour, dt.minute, dt.second>>

(* mutant of DtLess: equal datetimes compare as less *)
DtLessOrEqual(a, b) ==
    \/ AsTuple(a) = AsTuple(b)
    \/ \E i \in 1..6 :
           /\ AsTuple(a)[i] < AsTuple(b)[i]
           /\ \A j \in 1..(i - 1) : AsTuple(a)[j] = AsTuple(b)[j]

(* datetime.__lt__ *)
DtLess(a, b) ==
    \E i \in 1..6 :
        /\ AsTuple(a)[i] < AsTuple(b)[i]
        /\ \A j \in 1..(i - 1) : AsTuple(a)[j] = AsTuple(b)[j]

(* mutant of DtMax: the second argument is taken *)
DtMaxTakesSecond(a, b) == b

(* max(a, b) and min(a, b) of two datetimes *)
DtMax(a, b) == IF DtLess(a, b) THEN b ELSE a

DtMin(a, b) == IF DtLess(b, a) THEN b ELSE a

IsLeap(y) == (y % 4 = 0 /\ y % 100 # 0) \/ y % 400 = 0

DaysInMonth(y, mo) ==
    CASE mo = 2 -> IF IsLeap(y) THEN 29 ELSE 28
      [] mo \in {4, 6, 9, 11} -> 30
      [] OTHER -> 31

(* mutant of PlusOneDay: the date is not advanced *)
PlusOneDayStays(dt) == dt

(* dt + timedelta(days=1) *)
PlusOneDay(dt) ==
    IF dt.day < DaysInMonth(dt.year, dt.month) THEN [dt EXCEPT !.day = @ + 1]
    ELSE IF dt.month < 12 THEN [dt EXCEPT !.day = 1, !.month = @ + 1]
    ELSE [dt EXCEPT !.day = 1, !.month = 1, !.year = @ + 1]

(* dt - timedelta(days=1) *)
MinusOneDay(dt) ==
    IF dt.day > 1 THEN [dt EXCEPT !.day = @ - 1]
    ELSE IF dt.month > 1
         THEN [dt EXCEPT !.day = DaysInMonth(dt.year, dt.month - 1), !.month = @ - 1]
    ELSE [dt EXCEPT !.day = 31, !.month = 12, !.year = @ - 1]

(* dt.replace(hour=h, minute=mi) *)
Replace(dt, hm) == [dt EXCEPT !.hour = hm[1], !.minute = hm[2]]

(* format_date: dt.strftime('%d.%m.%Y'), for a year of four digits *)
FormatDate(dt) ==
    <<dt.day \div 10, dt.day % 10, dt.month \div 10, dt.month % 10,
      dt.year \div 1000, (dt.year \div 100) % 10, (dt.year \div 10) % 10, dt.year % 10>>

(* datetime.strptime(date_str, '%d.%m.%Y') *)
ParseDate(str) ==
    DateTime(1000 * str[5] + 100 * str[6] + 10 * str[7] + str[8],
             10 * str[3] + str[4], 10 * str[1] + str[2], 0, 0, 0)

(* mutant of GetShiftType: 07:30 itself does not belong to the morning *)
GetShiftTypeOpenStart(dt) ==
    LET time_val == dt.hour * 60 + dt.minute
        morning_start_val == MORNING_START[1] * 60 + MORNING_START[2]
        morning_end_val == MORNING_END[1] * 60 + MORNING_END[2]
    IN IF morning_start_val < time_val /\ time_val < morning_end_val
       THEN "morning" ELSE "evening"

GetShiftType(dt) ==
    LET time_val == dt.hour * 60 + dt.minute
        morning_start_val == MORNING_START[1] * 60 + MORNING_START[2]
        morning_end_val == MORNING_END[1] * 60 + MORNING_END[2]
    IN IF morning_start_val <= time_val /\ time_val < morning_end_val
       THEN "morning" ELSE "evening"

(* mutant of GetShiftKey: the key always carries the date of dt *)
GetShiftKeyOwnDate(dt, shift_type) ==
    [date_str |-> FormatDate(dt), shift_type |-> shift_type]

GetShiftKey(dt, shift_type) ==
    LET shift_date ==
            IF shift_type = "evening"
            THEN IF dt.hour < 7 \/ (dt.hour = 7 /\ dt.minute < 30)
                 THEN MinusOneDay(dt) ELSE dt
            ELSE dt
    IN [date_str |-> FormatDate(shift_date), shift_type |-> shift_type]

(* the label: the word for the shift type (transliterated) and "DD.MM" *)
GetShiftLabel(shift_key) ==
    [word |-> IF shift_key.shift_type = "morning" THEN "Utro" ELSE "Vecher",
     short_date |-> SubSeq(shift_key.date_str, 1, 4)]

(* mutant of GetShiftBoundaries: the evening shift ends on its own day *)
GetShiftBoundariesSameDay(shift_key) ==
    LET date == ParseDate(shift_key.date_str) IN
    IF shift_key.shift_type = "morning"
    THEN <<Replace(date, MORNING_START), Replace(date, MORNING_END)>>
    ELSE <<Replace(date, EVENING_START), Replace(date, EVENING_END)>>

GetShiftBoundaries(shift_key) ==
    LET date == ParseDate(shift_key.date_str) IN
    IF shift_key.shift_type = "morning"
    THEN <<Replace(date, MORNING_START), Replace(date, MORNING_END)>>
    ELSE <<Replace(date, EVENING_START), Replace(PlusOneDay(date), EVENING_END)>>

-----------------------------------------------------------------------------
(* SpecShifts: one call of split_period_into_shifts, one iteration of its
   while loop per step.  The arguments are taken from the days that follow a
   few anchor dates (a plain day, the end of a year, the end of February of
   a leap year), at clock times on both sides of the shift boundaries. *)

MaxDayOffset == 2

AnchorDates ==
    { DateTime(2026, 1, 25, 0, 0, 0), DateTime(2027, 12, 30, 0, 0, 0),
      DateTime(2028, 2, 28, 0, 0, 0) }

ClockTimes ==
    { <<0, 0, 0>>, <<7, 29, 59>>, <<7, 30, 0>>, <<8, 0, 0>>,
      <<19, 29, 59>>, <<19, 30, 0>>, <<23, 59, 59>> }

RECURSIVE DaysAfter(_, _)
DaysAfter(date, n) == IF n = 0 THEN date ELSE PlusOneDay(DaysAfter(date, n - 1))

DateTimesFrom(anchor) ==
    {[DaysAfter(anchor, n) EXCEPT !.hour = c[1], !.minute = c[2], !.second = c[3]] :
        n \in 0..MaxDayOffset, c \in ClockTimes}

InitShifts ==
    /\ json_error_is_request_exception = TRUE
    /\ client = << >>
    /\ PoolIdle
    /\ PureIdle
    /\ \E anchor \in AnchorDates :
          /\ from_dt \in DateTimesFrom(anchor)
          /\ to_dt \in DateTimesFrom(anchor)
    /\ current = from_dt
    /\ shifts = << >>
    /\ split_pc = "while"

(* one pass through the body of `while current < to_dt`; each local is bound
   once, as a one-element choice *)
SplitIterate ==
    /\ split_pc = "while"
    /\ DtLess(current, to_dt)
    /\ \E shift_type \in {GetShiftType(current)} :
       \E shift_key \in {GetShiftKey(current, shift_type)} :
       \E bounds \in {GetShiftBoundaries(shift_key)} :
       \E shift_start \in {bounds[1]}, shift_end \in {bounds[2]} :
       \E actual_from \in {DtMax(current, shift_start)}, actual_to \in {DtMin(to_dt, shift_end)} :
          /\ shifts' = IF DtLess(actual_from, actual_to)
                        THEN Append(shifts, [key |-> shift_key,
                                             label |-> GetShiftLabel(shift_key),
                                             from_dt |-> shift_start,
                                             to_dt |-> shift_end,
                                             actual_from |-> actual_from,
                                             actual_to |-> actual_to])
                        ELSE shifts
          /\ current' = shift_end
    /\ UNCHANGED <<pureVars, json_error_is_request_exception, client, poolVars, from_dt, to_dt,
                   split_pc>>

(* the while condition fails: return shifts *)
SplitReturn ==
    /\ split_pc = "while"
    /\ ~DtLess(current, to_dt)
    /\ split_pc' = "returned"
    /\ UNCHANGED <<pureVars, json_error_is_request_exception, client, poolVars, from_dt, to_dt,
                   current, shifts>>

NextShifts == SplitIterate \/ SplitReturn

SpecShifts == InitShifts /\ [][NextShifts]_vars

-----------------------------------------------------------------------------
(* Properties of split_period_into_shifts *)

SameDate(a, b) == a.year = b.year /\ a.month = b.month /\ a.day = b.day

DtLessEq(a, b) == a = b \/ DtLess(a, b)

(* C17: for start < end the clipped ranges of the shifts built so far are
   non-empty, each begins where the previous one ends (so they are in
   increasing order and do not overlap), the first begins at start and none
   ends after end; when the function has returned there is at least one
   shift and the last one ends at end. *)
C17_ShiftsCoverPeriod ==
    (split_pc \in {"while", "returned"} /\ DtLess(from_dt, to_dt)) =>
        /\ \A i \in 1..Len(shifts) :
              /\ DtLess(shifts[i].actual_from, shifts[i].actual_to)
              /\ DtLessEq(shifts[i].actual_to, to_dt)
        /\ \A i \in 1..(Len(shifts) - 1) :
              shifts[i + 1].actual_from = shifts[i].actual_to
        /\ shifts # << >> => shifts[1].actual_from = from_dt
        /\ (shifts # << >> /\ split_pc = "while") =>
              shifts[Len(shifts)].actual_to = DtMin(current, to_dt)
        /\ split_pc = "returned" =>
              /\ shifts # << >>
              /\ shifts[Len(shifts)].actual_to = to_dt

(* a period from inside one shift to inside another, over the end of a year *)
C17_Witness ==
    /\ split_pc = "returned"
    /\ Len(shifts) = 4
    /\ from_dt = DateTime(2027, 12, 30, 8, 0, 0)
    /\ to_dt = DateTime(2028, 1, 1, 7, 29, 59)
    /\ shifts[1].actual_from # shifts[1].from_dt
    /\ shifts[4].actual_to # shifts[4].to_dt
    /\ shifts[4].key.date_str = <<3, 1, 1, 2, 2, 0, 2, 7>>

(* the shift key "DD.MM.YYYY_type" of the day d.mo.y *)
ShiftKey(d, mo, y, shift_type) ==
    [date_str |-> FormatDate(DateTime(y, mo, d, 0, 0, 0)), shift_type |-> shift_type]

ExamplePeriod ==
    /\ from_dt = DateTime(2026, 1, 25, 8, 0, 0)
    /\ to_dt = DateTime(2026, 1, 26, 8, 0, 0)

(* C18: splitting 25.01.2026 08:00 .. 26.01.2026 08:00 returns exactly
   25.01.2026_morning = [25.01 08:00, 25.01 19:30),
   25.01.2026_evening = [25.01 19:30, 26.01 07:30),
   26.01.2026_morning = [26.01 07:30, 26.01 08:00), in this order. *)
C18_ExampleThreeShifts ==
    (ExamplePeriod /\ split_pc = "returned") =>
        [i \in 1..Len(shifts) |->
            <<shifts[i].key, shifts[i].actual_from, shifts[i].actual_to>>]
        = << <<ShiftKey(25, 1, 2026, "morning"),
               DateTime(2026, 1, 25, 8, 0, 0), DateTime(2026, 1, 25, 19, 30, 0)>>,
             <<ShiftKey(25, 1, 2026, "evening"),
               DateTime(2026, 1, 25, 19, 30, 0), DateTime(2026, 1, 26, 7, 30, 0)>>,
             <<ShiftKey(26, 1, 2026, "morning"),
               DateTime(2026, 1, 26, 7, 30, 0), DateTime(2026, 1, 26, 8, 0, 0)>> >>

C18_Witness ==
    /\ ExamplePeriod
    /\ split_pc = "returned"
    /\ Len(shifts) = 3
    /\ shifts[2].key.date_str = <<2, 5, 0, 1, 2, 0, 2, 6>>
    /\ shifts[2].key.shift_type = "evening"

(* the instants at which the shift functions are evaluated in a run *)
Instants == {from_dt, current}

MinuteOfDay(t) == 60 * t.hour + t.minute

(* C19: the key of an instant t of day D is D_morning when t is in
   [07:30, 19:30), D_evening when t is in [19:30, 24:00), and the evening
   key of the day before D when t is in [00:00, 07:30). *)
C19_EveningKeyedByStartDay ==
    split_pc \in {"while", "returned"} =>
        \A t \in Instants :
            LET k == GetShiftKey(t, GetShiftType(t))
                key_date == ParseDate(k.date_str)
            IN /\ (450 <= MinuteOfDay(t) /\ MinuteOfDay(t) < 1170) =>
                      (k.shift_type = "morning" /\ SameDate(key_date, t))
               /\ MinuteOfDay(t) >= 1170 =>
                      (k.shift_type = "evening" /\ SameDate(key_date, t))
               /\ MinuteOfDay(t) < 450 =>
                      /\ k.shift_type = "evening"
                      /\ SameDate(PlusOneDay(key_date), t)
                      /\ ~SameDate(key_date, t)
                      /\ DtLess(key_date, t)

(* a period that begins at 00:00 of 01.01.2028: its first shift is the
   evening shift of 31.12.2027 *)
C19_Witness ==
    /\ split_pc = "returned"
    /\ from_dt = DateTime(2028, 1, 1, 0, 0, 0)
    /\ shifts # << >>
    /\ shifts[1].key = ShiftKey(31, 12, 2027, "evening")
    /\ shifts[1].actual_from = from_dt

(* C20: the key of an instant t gives back, through get_shift_boundaries, a
   bucket [s, e) with s <= t < e, whose own instants have the same key; and
   every shift built carries the boundaries of its key as from_dt and to_dt
   and a clipped range inside them. *)
C20_ShiftDerivableFromKey ==
    split_pc \in {"while", "returned"} =>
        /\ \A t \in Instants :
              LET k == GetShiftKey(t, GetShiftType(t))
                  s == GetShiftBoundaries(k)[1]
                  e == GetShiftBoundaries(k)[2]
              IN /\ DtLessEq(s, t)
                 /\ DtLess(t, e)
                 /\ GetShiftKey(s, GetShiftType(s)) = k
                 /\ GetShiftKey(e, GetShiftType(e)) # k
        /\ \A i \in 1..Len(shifts) :
              /\ GetShiftBoundaries(shifts[i].key) = <<shifts[i].from_dt, shifts[i].to_dt>>
              /\ DtLessEq(shifts[i].from_dt, shifts[i].actual_from)
              /\ DtLess(shifts[i].actual_from, shifts[i].actual_to)
              /\ DtLessEq(shifts[i].actual_to, shifts[i].to_dt)
              /\ GetShiftKey(shifts[i].actual_from, GetShiftType(shifts[i].actual_from))
                    = shifts[i].key

(* an evening shift over the leap day: key 29.02.2028_evening, boundaries
   29.02 19:30 .. 01.03 07:30, entered one second before midnight *)
C20_Witness ==
    /\ split_pc = "returned"
    /\ from_dt = DateTime(2028, 2, 29, 23, 59, 59)
    /\ shifts # << >>
    /\ shifts[1].key = ShiftKey(29, 2, 2028, "evening")
    /\ shifts[1].from_dt = DateTime(2028, 2, 29, 19, 30, 0)
    /\ shifts[1].to_dt = DateTime(2028, 3, 1, 7, 30, 0)
    /\ shifts[1].actual_to = shifts[1].to_dt

-----------------------------------------------------------------------------
(* C22: when the end of the period is not after its start, the while loop
   of split_period_into_shifts is never entered: no shift is ever built, the
   cursor stays at the start, and the only step the function can take is to
   return the empty list (there is no raising step). *)
C22_EmptyWhenEndNotAfterStart ==
    (split_pc \in {"while", "returned"} /\ DtLessEq(to_dt, from_dt)) =>
        /\ shifts = << >>
        /\ current = from_dt
        /\ split_pc = "while" => ENABLED SplitReturn

C22_Witness ==
    /\ split_pc = "returned"
    /\ from_dt = to_dt
    /\ shifts = << >>

-----------------------------------------------------------------------------
(***************************************************************************)
(* split_period_into_shifts_str (shifts.py).  A date/time string is the   *)
(* pair of its digit groups: date_str holds the eight digits of            *)
(* DD.MM.YYYY, time_str the digits of HH:MM (four), of HH:MM:SS (six), or  *)
(* nothing when the string stops after the date.                           *)
(***************************************************************************)

EmptyText == [date_str |-> << >>, time_str |-> << >>]

Text(date_str, time_str) == [date_str |-> date_str, time_str |-> time_str]

TwoDigits(n) == <<n \div 10, n % 10>>

(* the value datetime.strptime builds when the string matches the format
   whose time part has Len(str.time_str) digits *)
Strptime(str) ==
    LET date == ParseDate(str.date_str)
        t == str.time_str
    IN  [date EXCEPT !.hour = IF Len(t) >= 4 THEN 10 * t[1] + t[2] ELSE 0,
                     !.minute = IF Len(t) >= 4 THEN 10 * t[3] + t[4] ELSE 0,
                     !.second = IF Len(t) = 6 THEN 10 * t[5] + t[6] ELSE 0]

(* strptime raises ValueError: no format fits, or a field is out of range *)
StrptimeFails(str) ==
    \/ Len(str.date_str) # 8
    \/ Len(str.time_str) \notin {0, 4, 6}
    \/ LET dt == Strptime(str)
       IN  \/ dt.month \notin 1..12
           \/ dt.year < 1
           \/ dt.day < 1
           \/ dt.month \in 1..12 /\ dt.day > DaysInMonth(dt.year, dt.month)
           \/ dt.hour > 23
           \/ dt.minute > 59
           \/ dt.second > 59

(* parse_datetime: None (NoDateTime) for a falsy or unparseable string *)
parse_datetime(dt_str) ==
    IF dt_str = EmptyText THEN NoDateTime
    ELSE IF StrptimeFails(dt_str) THEN NoDateTime
    ELSE Strptime(dt_str)

(* format_datetime: dt.strftime('%d.%m.%Y %H:%M') *)
format_datetime(dt) == Text(FormatDate(dt), TwoDigits(dt.hour) \o TwoDigits(dt.minute))

(* the arguments the specification draws for one anchor day *)
TimeTexts ==
    { << >>, <<0, 0, 0, 0>>, <<0, 7, 3, 0>>, <<0, 8, 0, 0>>, <<1, 9, 3, 0>>,
      <<0, 0, 0, 0, 4, 5>>, <<0, 7, 2, 9, 5, 9>>, <<1, 9, 2, 9, 3, 0>>,
      <<1, 9, 2, 9, 5, 9>>, <<2, 3, 5, 9, 5, 9>> }

TextsFrom(anchor) ==
    { Text(FormatDate(DaysAfter(anchor, n)), t) : n \in 0..MaxDayOffset, t \in TimeTexts }
    \cup { EmptyText, Text(FormatDate(anchor), <<0, 8>>),
           Text(<<3, 1, 0, 2, 2, 0, 2, 6>>, <<0, 8, 0, 0>>) }

InitShiftsStr ==
    /\ json_error_is_request_exception = TRUE
    /\ client = << >>
    /\ PoolIdle
    /\ ShiftsIdle
    /\ AppIdle
    /\ reorder = NotCalled
    /\ extract = NotCalled
    /\ simplify = NotCalled
    /\ parse = NotCalled
    /\ \E anchor \in AnchorDates : \E f \in TextsFrom(anchor), t \in TextsFrom(anchor) :
          split_str = [pc |-> "call", from_date |-> f, to_date |-> t, result |-> << >>]

otherVars == <<json_error_is_request_exception, client, poolVars, appVars>>

(* lines 228-233: a string that does not parse ends the call with [] *)
StrParseFails ==
    /\ split_str.pc = "call"
    /\ \/ parse_datetime(split_str.from_date) = NoDateTime
       \/ parse_datetime(split_str.to_date) = NoDateTime
    /\ split_str' = [split_str EXCEPT !.pc = "returned", !.result = << >>]
    /\ UNCHANGED <<otherVars, shiftVars, reorder, extract, simplify, parse>>

(* lines 228-241: both strings parse; the defaults are substituted and
   split_period_into_shifts is entered *)
StrParse ==
    /\ split_str.pc = "call"
    /\ parse_datetime(split_str.from_date) # NoDateTime
    /\ parse_datetime(split_str.to_date) # NoDateTime
    /\ LET f == parse_datetime(split_str.from_date)
           t == parse_datetime(split_str.to_date)
       IN  /\ from_dt' = IF f.hour = 0 /\ f.minute = 0 THEN Replace(f, MORNING_START) ELSE f
           /\ to_dt' = IF t.hour = 0 /\ t.minute = 0 THEN Replace(t, MORNING_END) ELSE t
    /\ current' = from_dt'
    /\ shifts' = << >>
    /\ split_pc' = "while"
    /\ split_str' = [split_str EXCEPT !.pc = "split"]
    /\ UNCHANGED <<otherVars, reorder, extract, simplify, parse>>

(* lines 243-253: the shifts are converted to strings and returned *)
StrConvert ==
    /\ split_str.pc = "split"
    /\ split_pc = "returned"
    /\ split_str' = [split_str EXCEPT
                        !.pc = "returned",
                        !.result = [i \in 1..Len(shifts) |->
                                       [key |-> shifts[i].key,
                                        label |-> shifts[i].label,
                                        from |-> format_datetime(shifts[i].actual_from),
                                        to |-> format_datetime(shifts[i].actual_to)]]]
    /\ UNCHANGED <<otherVars, shiftVars, reorder, extract, simplify, parse>>

NextShiftsStr == StrParseFails \/ StrParse \/ SplitIterate \/ SplitReturn \/ StrConvert

SpecShiftsStr == InitShiftsStr /\ [][NextShiftsStr]_vars

(* the start and the end the claim C21 expects to be split: hour and minute
   zero become 07:30 (19:30) of the same day, whatever the seconds are *)
DefaultedStart(dt) ==
    IF dt.hour = 0 /\ dt.minute = 0
    THEN DateTime(dt.year, dt.month, dt.day, 7, 30, dt.second) ELSE dt

DefaultedEnd(dt) ==
    IF dt.hour = 0 /\ dt.minute = 0
    THEN DateTime(dt.year, dt.month, dt.day, 19, 30, dt.second) ELSE dt

(* the ranges of the returned list tile [start, end) *)
CoversExactly(result, start, end) ==
    IF DtLess(start, end)
    THEN /\ Len(result) >= 1
         /\ parse_datetime(result[1].from) = start
         /\ parse_datetime(result[Len(result)].to) = end
         /\ \A i \in 1..Len(result) :
                DtLess(parse_datetime(result[i].from), parse_datetime(result[i].to))
         /\ \A i \in 1..(Len(result) - 1) : result[i].to = result[i + 1].from
    ELSE result = << >>

StrArgumentsParse ==
    /\ split_str.pc \in {"split", "returned"}
    /\ parse_datetime(split_str.from_date) # NoDateTime
    /\ parse_datetime(split_str.to_date) # NoDateTime

(* C21: when both strings parse, the period that is split is the parsed
   start with 00:00 replaced by 07:30 of the same day and the parsed end
   with 00:00 replaced by 19:30 of the same day, any other clock time
   unchanged, and the ranges of the returned list cover exactly that period. *)
C21_StrDefaultsAndCover ==
    StrArgumentsParse =>
        LET start == DefaultedStart(parse_datetime(split_str.from_date))
            end == DefaultedEnd(parse_datetime(split_str.to_date))
        IN  /\ from_dt = start
            /\ to_dt = end
            /\ split_str.pc = "returned" => CoversExactly(split_str.result, start, end)

(* the same statement for arguments written without seconds *)
C21_HoldsWithoutSeconds ==
    (StrArgumentsParse /\ Len(split_str.from_date.time_str) # 6
                       /\ Len(split_str.to_date.time_str) # 6) =>
        C21_StrDefaultsAndCover

C21_SameMinutePeriod ==
    /\ split_str.pc = "returned"
    /\ split_str.from_date.time_str = <<1, 9, 2, 9, 3, 0>>
    /\ split_str.to_date = [split_str.from_date EXCEPT !.time_str = <<1, 9, 2, 9, 5, 9>>]
    /\ Len(split_str.result) = 1
    /\ split_str.result[1].from = split_str.result[1].to

-----------------------------------------------------------------------------
(***************************************************************************)
(* _reorder_tasks_for_rate_limit on its own (fetcher.py).  by_vehicle and  *)
(* result hold indices into the argument, so that two equal tasks of the   *)
(* argument stay apart.                                                    *)
(***************************************************************************)

MaxReorderVehicle == 3
MaxReorderTasks == 6

(* the lists the specification draws: any vehicle for each task, in any
   order of first appearance; tasks 2k-1 and 2k carry the same route list,
   so a list may hold the same task twice *)
ReorderInputs ==
    {[i \in 1..Len(vs) |-> [pl_id |-> (i + 1) \div 2, ts_id_mo |-> vs[i]]] :
        vs \in UNION {[1..n -> 1..MaxReorderVehicle] : n \in 0..MaxReorderTasks}}

Indices(ts) == [i \in 1..Len(ts) |-> i]

InitReorder ==
    /\ json_error_is_request_exception = TRUE
    /\ client = << >>
    /\ PoolIdle
    /\ ShiftsIdle
    /\ AppIdle
    /\ split_str = NotCalled
    /\ extract = NotCalled
    /\ simplify = NotCalled
    /\ parse = NotCalled
    /\ \E ts \in ReorderInputs :
          reorder = [pc |-> "call", tasks |-> ts, by_vehicle |-> << >>,
                     vehicle_ids |-> << >>, result |-> << >>]

(* `if not tasks: return tasks` *)
ReorderEmpty ==
    /\ reorder.pc = "call"
    /\ reorder.tasks = << >>
    /\ reorder' = [reorder EXCEPT !.pc = "returned", !.result = << >>]
    /\ UNCHANGED <<otherVars, shiftVars, split_str, extract, simplify, parse>>

(* the grouping loop and vehicle_ids = list(by_vehicle.keys()) *)
ReorderGroup ==
    /\ reorder.pc = "call"
    /\ reorder.tasks # << >>
    /\ reorder' = [reorder EXCEPT
                      !.pc = "while",
                      !.by_vehicle = ByVehicle(reorder.tasks, Indices(reorder.tasks)),
                      !.vehicle_ids = VehicleIds(reorder.tasks, Indices(reorder.tasks), << >>),
                      !.result = << >>]
    /\ UNCHANGED <<otherVars, shiftVars, split_str, extract, simplify, parse>>

(* one pass of `while any(by_vehicle.values())`: the for loop over vehicle_ids *)
ReorderRound ==
    /\ reorder.pc = "while"
    /\ \E v \in DOMAIN reorder.by_vehicle : reorder.by_vehicle[v] # << >>
    /\ LET r == TakeOneEach(reorder.by_vehicle, reorder.vehicle_ids, reorder.result)
       IN  reorder' = [reorder EXCEPT !.by_vehicle = r.by, !.result = r.result]
    /\ UNCHANGED <<otherVars, shiftVars, split_str, extract, simplify, parse>>

(* every group is empty: return result *)
ReorderReturn ==
    /\ reorder.pc = "while"
    /\ \A v \in DOMAIN reorder.by_vehicle : reorder.by_vehicle[v] = << >>
    /\ reorder' = [reorder EXCEPT !.pc = "returned"]
    /\ UNCHANGED <<otherVars, shiftVars, split_str, extract, simplify, parse>>

NextReorder == ReorderEmpty \/ ReorderGroup \/ ReorderRound \/ ReorderReturn

SpecReorder == InitReorder /\ [][NextReorder]_vars

(* the tasks of the list built so far *)
ReorderOutput == [p \in 1..Len(reorder.result) |-> reorder.tasks[reorder.result[p]]]

Occurrences(t, s) == Cardinality({i \in 1..Len(s) : s[i] = t})

(* C23: the returned list is a permutation of the argument: every position
   of the argument is emitted exactly once, so every task occurs in the
   output as many times as in the input and the lengths agree; two tasks of
   the same vehicle are emitted in the order they have in the input. *)
C23_ReorderIsPermutation ==
    reorder.pc = "returned" =>
        /\ Len(reorder.result) = Len(reorder.tasks)
        /\ \A i \in 1..Len(reorder.tasks) :
              Cardinality({p \in 1..Len(reorder.result) : reorder.result[p] = i}) = 1
        /\ \A p \in 1..Len(ReorderOutput) :
              Occurrences(ReorderOutput[p], ReorderOutput)
                  = Occurrences(ReorderOutput[p], reorder.tasks)
        /\ \A p, q \in 1..Len(reorder.result) :
              (p < q /\ ReorderOutput[p].ts_id_mo = ReorderOutput[q].ts_id_mo)
                  => reorder.result[p] < reorder.result[q]

C23_Witness ==
    /\ reorder.pc = "returned"
    /\ Len(reorder.tasks) = MaxReorderTasks
    /\ reorder.result # Indices(reorder.tasks)
    /\ \E i, j \in 1..Len(reorder.tasks) : i < j /\ reorder.tasks[i] = reorder.tasks[j]

(* C24: when two neighbours of the returned list reference the same
   vehicle, no task of another vehicle follows them: all tasks of the other
   vehicles stand before the second of the two. *)
C24_AdjacentOnlyWhenAlone ==
    reorder.pc = "returned" =>
        \A p \in 1..(Len(ReorderOutput) - 1) :
            ReorderOutput[p].ts_id_mo = ReorderOutput[p + 1].ts_id_mo =>
                \A q \in (p + 1)..Len(ReorderOutput) :
                    ReorderOutput[q].ts_id_mo = ReorderOutput[p].ts_id_mo

C24_Witness ==
    /\ reorder.pc = "returned"
    /\ Cardinality({reorder.tasks[i].ts_id_mo : i \in 1..Len(reorder.tasks)}) = 3
    /\ \E p \in 1..(Len(ReorderOutput) - 1) :
          ReorderOutput[p].ts_id_mo = ReorderOutput[p + 1].ts_id_mo

(* how many earlier tasks of the list ts reference the vehicle of task i *)
RoundIn(ts, i) == Cardinality({j \in 1..(i - 1) : ts[j].ts_id_mo = ts[i].ts_id_mo})

(* the index at which the vehicle of task i first appears in ts *)
FirstSeenIn(ts, i) ==
    CHOOSE j \in 1..i :
        /\ ts[j].ts_id_mo = ts[i].ts_id_mo
        /\ \A k \in 1..(j - 1) : ts[k].ts_id_mo # ts[i].ts_id_mo

ExampleVehicles == <<1, 2, 1, 3, 1, 3>>

(* C25: at every pass the list built so far is a concatenation of rounds:
   a task that is the r-th of its vehicle stands before every task that is
   later than the r-th of its vehicle, and inside a round the vehicles stand
   in the order of their first appearance in the input; after pass n exactly
   the tasks of the rounds 1..n are emitted.  For the vehicles A,B,A,C,A,C
   the returned order is A,B,C,A,C,A. *)
C25_RoundsInFirstSeenOrder ==
    reorder.pc \in {"while", "returned"} =>
        LET ts == reorder.tasks
            res == reorder.result
        IN  /\ \A p, q \in 1..Len(res) :
                  p < q =>
                      \/ RoundIn(ts, res[p]) < RoundIn(ts, res[q])
                      \/ /\ RoundIn(ts, res[p]) = RoundIn(ts, res[q])
                         /\ FirstSeenIn(ts, res[p]) < FirstSeenIn(ts, res[q])
            /\ \A i \in 1..Len(ts) :
                  (\E p \in 1..Len(res) : res[p] = i)
                      \/ \A p \in 1..Len(res) : RoundIn(ts, res[p]) < RoundIn(ts, i)
            /\ reorder.pc = "returned" => \A i \in 1..Len(ts) : \E p \in 1..Len(res) : res[p] = i
            /\ (reorder.pc = "returned"
                   /\ [i \in 1..Len(ts) |-> ts[i].ts_id_mo] = ExampleVehicles)
                  => [p \in 1..Len(res) |-> ReorderOutput[p].ts_id_mo] = <<1, 2, 3, 1, 3, 1>>

C25_Witness ==
    /\ reorder.pc = "returned"
    /\ [i \in 1..Len(reorder.tasks) |-> reorder.tasks[i].ts_id_mo] = ExampleVehicles
    /\ reorder.result = <<1, 2, 4, 3, 6, 5>>

-----------------------------------------------------------------------------
(***************************************************************************)
(* extract_monitoring_tasks (fetcher.py).  A JSON object is a function on  *)
(* the keys it holds; a label is the sequence of its characters.           *)
(***************************************************************************)

MaxRecords == 2

(* dict.get(key, default) *)
Get(d, key, default) == IF key \in DOMAIN d THEN d[key] ELSE default

(* an entry of a `ts` array that is not a JSON object *)
NonDict == [not_a_dict |-> TRUE]

(* mutant of IsDict: every value passes for a dict *)
IsDictAlways(x) == TRUE

(* isinstance(x, dict) *)
IsDict(x) == "not_a_dict" \notin DOMAIN x

(* the letters that have an upper-case form, among those the labels use *)
ToLower ==
    [T |-> "t", Y |-> "y", A |-> "a", G |-> "g", C |-> "c", H |-> "h",
     M |-> "m", N |-> "n", S |-> "s"]

(* mutant of Lower: the label is compared as it is written *)
LowerKeepsCase(s) == s

(* str.lower() *)
Lower(s) == [i \in 1..Len(s) |-> IF s[i] \in DOMAIN ToLower THEN ToLower[s[i]] ELSE s[i]]

(* needle in s *)
Contains(s, needle) ==
    \E i \in 0..(Len(s) - Len(needle)) : SubSeq(s, i + 1, i + Len(needle)) = needle

(* the vehicle class looked for in the label, transliterated *)
Tyagach == <<"t", "y", "a", "g", "a", "c", "h">>

NameCapital == <<"T", "y", "a", "g", "a", "c", "h", " ", "M", "A", "N">>
NameInside == <<"a", "v", "t", "o", "t", "y", "a", "g", "a", "c", "h">>
NameOther == <<"S", "a", "m", "o", "s", "v", "a", "l">>

TsRefs ==
    [good1 |-> [idMO |-> 1, nameMO |-> NameCapital, regNumber |-> 11],
     good2 |-> [idMO |-> 2, nameMO |-> NameInside],
     no_id |-> [nameMO |-> NameCapital, regNumber |-> 12],
     null_id |-> [idMO |-> NoValue, nameMO |-> NameInside],
     zero_id |-> [idMO |-> 0, nameMO |-> NameCapital],
     other |-> [idMO |-> 1, nameMO |-> NameOther],
     no_name |-> [idMO |-> 2, regNumber |-> 13]]

TsLists ==
    { << >>,
      <<TsRefs.good1>>,
      <<NonDict, TsRefs.good2>>,
      <<TsRefs.no_id, TsRefs.good1, TsRefs.null_id>>,
      <<TsRefs.zero_id, TsRefs.other>>,
      <<TsRefs.good1, TsRefs.good1>>,
      <<TsRefs.good2, TsRefs.no_name, TsRefs.good1>> }

PlanOut == Text(<<2, 5, 0, 1, 2, 0, 2, 6>>, <<0, 8, 0, 0>>)
PlanIn == Text(<<2, 5, 0, 1, 2, 0, 2, 6>>, <<1, 9, 3, 0>>)
PlanGarbage == Text(<<2, 5, 0, 1, 2, 0, 2, 6>>, <<0, 8>>)

(* the planned bounds a route list may carry; an empty function stands for
   a record without the key *)
PlanWindows ==
    { [dateOutPlan |-> PlanOut, dateInPlan |-> PlanIn],
      [dateInPlan |-> PlanIn],
      [dateOutPlan |-> PlanOut, dateInPlan |-> EmptyText],
      [dateOutPlan |-> PlanGarbage, dateInPlan |-> PlanIn],
      [dateOutPlan |-> PlanIn, dateInPlan |-> PlanOut] }

(* d extended by the entries of e *)
With(d, e) == [k \in (DOMAIN d) \cup (DOMAIN e) |-> IF k \in DOMAIN e THEN e[k] ELSE d[k]]

(* the route lists of pl_data['list'] *)
RouteLists ==
    { With([tsNumber |-> 7, dateOut |-> <<2, 5, 0, 1, 2, 0, 2, 6>>], w) : w \in PlanWindows }
    \cup { With(With([tsNumber |-> 7, dateOut |-> <<2, 5, 0, 1, 2, 0, 2, 6>>], w), [ts |-> l]) :
              w \in PlanWindows, l \in TsLists }

(* `not x` for an integer or None *)
FalsyId(x) == x = NoValue \/ x = 0

(* the inner loop `for ts in ts_list` with its three `continue`s *)
RECURSIVE AppendTasks(_, _, _, _, _)
AppendTasks(built, pl_id, date_out_plan, date_in_plan, ts_list) ==
    IF ts_list = << >> THEN built
    ELSE LET ts == Head(ts_list)
             rest == Tail(ts_list)
         IN  IF ~IsDict(ts)
             THEN AppendTasks(built, pl_id, date_out_plan, date_in_plan, rest)
             ELSE IF FalsyId(Get(ts, "idMO", NoValue))
             THEN AppendTasks(built, pl_id, date_out_plan, date_in_plan, rest)
             ELSE IF ~Contains(Lower(Get(ts, "nameMO", << >>)), Tyagach)
             THEN AppendTasks(built, pl_id, date_out_plan, date_in_plan, rest)
             ELSE AppendTasks(Append(built,
                                     [pl_id |-> pl_id,
                                      ts_id_mo |-> ts.idMO,
                                      ts_reg_number |-> Get(ts, "regNumber", NoValue),
                                      ts_name_mo |-> Get(ts, "nameMO", << >>),
                                      from_date |-> date_out_plan,
                                      to_date |-> date_in_plan]),
                              pl_id, date_out_plan, date_in_plan, rest)

(* the body of `for pl in pl_data.get('list', [])` *)
ExtractFrom(built, pl) ==
    LET pl_id == <<pl.tsNumber, pl.dateOut>>
        date_out_plan == Get(pl, "dateOutPlan", EmptyText)
        date_in_plan == Get(pl, "dateInPlan", EmptyText)
        ts_list == Get(pl, "ts", << >>)
    IN  IF date_out_plan = EmptyText \/ date_in_plan = EmptyText THEN built
        ELSE IF ts_list = << >> THEN built
        ELSE AppendTasks(built, pl_id, date_out_plan, date_in_plan, ts_list)

InitExtract ==
    /\ json_error_is_request_exception = TRUE
    /\ client = << >>
    /\ PoolIdle
    /\ ShiftsIdle
    /\ AppIdle
    /\ split_str = NotCalled
    /\ reorder = NotCalled
    /\ simplify = NotCalled
    /\ parse = NotCalled
    /\ extract = [pc |-> "for", read |-> << >>, tasks |-> << >>]

(* the next route list of the payload is read and handled *)
ExtractRecord(pl) ==
    /\ extract.pc = "for"
    /\ Len(extract.read) < MaxRecords
    /\ extract' = [extract EXCEPT !.read = Append(@, pl),
                                  !.tasks = ExtractFrom(@, pl)]
    /\ UNCHANGED <<otherVars, shiftVars, split_str, reorder, simplify, parse>>

(* the list is exhausted: return tasks *)
ExtractReturn ==
    /\ extract.pc = "for"
    /\ extract' = [extract EXCEPT !.pc = "returned"]
    /\ UNCHANGED <<otherVars, shiftVars, split_str, reorder, simplify, parse>>

NextExtract == (\E pl \in RouteLists : ExtractRecord(pl)) \/ ExtractReturn

SpecExtract == InitExtract /\ [][NextExtract]_vars

(* C26: every task built has a window that parses and is not empty:
   from_date and to_date are date/time strings and from_date is before
   to_date; no task comes from a route list with an unparseable bound. *)
C26_WindowsParseAndNonEmpty ==
    extract.pc \in {"for", "returned"} =>
        \A i \in 1..Len(extract.tasks) :
            LET t == extract.tasks[i] IN
            /\ parse_datetime(t.from_date) # NoDateTime
            /\ parse_datetime(t.to_date) # NoDateTime
            /\ DtLess(parse_datetime(t.from_date), parse_datetime(t.to_date))

(* the route list has both planned bounds *)
HasBothBounds(pl) ==
    /\ "dateOutPlan" \in DOMAIN pl /\ pl.dateOutPlan # EmptyText
    /\ "dateInPlan" \in DOMAIN pl /\ pl.dateInPlan # EmptyText

(* the reference names a vehicle: 0 and null are no identifiers *)
HasIdentifier(ts) == IsDict(ts) /\ "idMO" \in DOMAIN ts /\ ts.idMO \notin {0, NoValue}

SameLetter(a, b) ==
    a = b \/ (a \in DOMAIN ToLower /\ ToLower[a] = b) \/ (b \in DOMAIN ToLower /\ ToLower[b] = a)

(* the label holds the vehicle class, in whatever case it is written *)
LabelMatches(ts) ==
    /\ "nameMO" \in DOMAIN ts
    /\ \E i \in 0..(Len(ts.nameMO) - Len(Tyagach)) :
          \A k \in 1..Len(Tyagach) : SameLetter(ts.nameMO[i + k], Tyagach[k])

QualifyingRefs(pl) ==
    LET Qualifies(ts) == HasIdentifier(ts) /\ LabelMatches(ts)
    IN  IF HasBothBounds(pl) /\ "ts" \in DOMAIN pl THEN SelectSeq(pl.ts, Qualifies) ELSE << >>

(* the pairs (route list, reference) that call for a task, in input order *)
RECURSIVE QualifyingPairs(_)
QualifyingPairs(read) ==
    IF read = << >> THEN << >>
    ELSE LET pl == Head(read)
             refs == QualifyingRefs(pl)
         IN  [i \in 1..Len(refs) |-> [pl |-> pl, ts |-> refs[i]]] \o QualifyingPairs(Tail(read))

(* C27: the tasks built from the route lists read so far are, in order,
   one per pair of a route list that has both planned bounds and one of its
   references that has an identifier and whose label holds the vehicle class
   in any case; each task carries the identifier and label of its reference
   and the bounds of its route list; equal pairs give equal tasks, both
   kept; a route list without a planned bound gives none. *)
C27_OneTaskPerQualifyingPair ==
    extract.pc \in {"for", "returned"} =>
        LET pairs == QualifyingPairs(extract.read) IN
        /\ Len(extract.tasks) = Len(pairs)
        /\ \A i \in 1..Len(pairs) :
              LET t == extract.tasks[i] IN
              /\ t.ts_id_mo = pairs[i].ts.idMO
              /\ t.ts_name_mo = pairs[i].ts.nameMO
              /\ t.from_date = pairs[i].pl.dateOutPlan
              /\ t.to_date = pairs[i].pl.dateInPlan
              /\ t.pl_id = <<pairs[i].pl.tsNumber, pairs[i].pl.dateOut>>

C27_Witness ==
    /\ extract.pc = "returned"
    /\ Len(extract.read) = 2
    /\ ~HasBothBounds(extract.read[1])
    /\ "ts" \in DOMAIN extract.read[1]
    /\ extract.read[1].ts = <<TsRefs.good1, TsRefs.good1>>
    /\ HasBothBounds(extract.read[2])
    /\ "ts" \in DOMAIN extract.read[2]
    /\ extract.read[2].ts = <<TsRefs.good2, TsRefs.no_name, TsRefs.good1>>
    /\ Len(extract.tasks) = 2
    /\ extract.tasks[1].ts_id_mo = 2
    /\ extract.tasks[2].ts_name_mo = NameCapital

-----------------------------------------------------------------------------
(***************************************************************************)
(* _simplify_track (monitoring_parser.py).  A track point carries its      *)
(* position in lat, so the points of a track are pairwise distinct; its    *)
(* time is a date/time string, EmptyText when the payload has none.        *)
(***************************************************************************)

TRACK_SIMPLIFY_INTERVAL_MIN == 20

MaxTrack == 4

(* _parse_datetime of the parser: '%d.%m.%Y %H:%M:%S', then
   '%d.%m.%Y %H:%M'; None (NoDateTime) for a falsy or unparseable string *)
mon_parse_datetime(dt_str) ==
    IF dt_str = EmptyText THEN NoDateTime
    ELSE IF Len(dt_str.time_str) \in {4, 6} /\ ~StrptimeFails(dt_str) THEN Strptime(dt_str)
    ELSE NoDateTime

RECURSIVE DaysBeforeMonth(_, _)
DaysBeforeMonth(y, mo) ==
    IF mo = 1 THEN 0 ELSE DaysInMonth(y, mo - 1) + DaysBeforeMonth(y, mo - 1)

(* date.toordinal() *)
Ordinal(dt) ==
    LET y == dt.year - 1
    IN  365 * y + (y \div 4) - (y \div 100) + (y \div 400)
            + DaysBeforeMonth(dt.year, dt.month) + dt.day

(* (a - b).total_seconds() *)
TotalSeconds(a, b) ==
    86400 * (Ordinal(a) - Ordinal(b))
        + 3600 * (a.hour - b.hour) + 60 * (a.minute - b.minute) + (a.second - b.second)

(* mutant of IntervalElapsed: the interval must be exceeded *)
IntervalExceeded(point_time, last_time, interval_minutes) ==
    TotalSeconds(point_time, last_time) > 60 * interval_minutes

(* delta_minutes >= interval_minutes, with delta_minutes = total_seconds / 60 *)
IntervalElapsed(point_time, last_time, interval_minutes) ==
    TotalSeconds(point_time, last_time) >= 60 * interval_minutes

TrackDay == <<2, 5, 0, 1, 2, 0, 2, 6>>

(* the times a point of the drawn tracks may carry: with seconds, without
   seconds, a date alone (no format of the parser fits), none *)
TrackTimes ==
    { Text(TrackDay, <<1, 0, 0, 0, 0, 0>>), Text(TrackDay, <<1, 0, 1, 9, 5, 9>>),
      Text(TrackDay, <<1, 0, 2, 0, 0, 0>>), Text(TrackDay, <<1, 0, 3, 9, 5, 9>>),
      Text(TrackDay, <<1, 0, 4, 0>>), Text(TrackDay, << >>), EmptyText }

TrackPoint(i, time) == [lat |-> i, lon |-> 0, time |-> time, speed |-> 0]

Tracks ==
    {[i \in 1..Len(ts) |-> TrackPoint(i, ts[i])] :
        ts \in UNION {[1..n -> TrackTimes] : n \in 0..MaxTrack}}

(* 101 points one minute apart, from 10:00:00 to 11:40:00 *)
MinuteTrack ==
    [i \in 1..101 |->
        LET m == 600 + (i - 1)
        IN  TrackPoint(i, Text(TrackDay, TwoDigits(m \div 60) \o TwoDigits(m % 60) \o <<0, 0>>))]

InitTrack ==
    /\ json_error_is_request_exception = TRUE
    /\ client = << >>
    /\ PoolIdle
    /\ ShiftsIdle
    /\ AppIdle
    /\ split_str = NotCalled
    /\ reorder = NotCalled
    /\ extract = NotCalled
    /\ parse = NotCalled
    /\ \E track \in Tracks \cup {MinuteTrack} :
          simplify = [pc |-> "call", track |-> track,
                      interval_minutes |-> TRACK_SIMPLIFY_INTERVAL_MIN,
                      result |-> << >>, last_time |-> NoDateTime, i |-> 0]

(* `if not track or len(track) <= 2: return track` *)
SimplifyShort ==
    /\ simplify.pc = "call"
    /\ Len(simplify.track) <= 2
    /\ simplify' = [simplify EXCEPT !.pc = "returned", !.result = simplify.track]
    /\ UNCHANGED <<otherVars, shiftVars, split_str, reorder, extract, parse>>

(* lines 45-46: the first point is kept and its time parsed *)
SimplifyFirst ==
    /\ simplify.pc = "call"
    /\ Len(simplify.track) > 2
    /\ simplify' = [simplify EXCEPT !.pc = "for",
                                    !.result = <<simplify.track[1]>>,
                                    !.last_time = mon_parse_datetime(simplify.track[1].time),
                                    !.i = 2]
    /\ UNCHANGED <<otherVars, shiftVars, split_str, reorder, extract, parse>>

(* the body of `for point in track[1:-1]` for one point *)
SimplifyStep(s, point) ==
    LET point_time == mon_parse_datetime(point.time)
        last_time == s.last_time
    IN  IF point_time # NoDateTime /\ last_time # NoDateTime
        THEN IF IntervalElapsed(point_time, last_time, s.interval_minutes)
             THEN [s EXCEPT !.result = Append(@, point), !.last_time = point_time]
             ELSE s
        ELSE IF last_time = NoDateTime /\ point_time # NoDateTime
        THEN [s EXCEPT !.result = Append(@, point), !.last_time = point_time]
        ELSE s

SimplifyPoint ==
    /\ simplify.pc = "for"
    /\ simplify.i < Len(simplify.track)
    /\ simplify' = [SimplifyStep(simplify, simplify.track[simplify.i]) EXCEPT !.i = @ + 1]
    /\ UNCHANGED <<otherVars, shiftVars, split_str, reorder, extract, parse>>

(* lines 60-61: the last point is kept and the result returned *)
SimplifyLast ==
    /\ simplify.pc = "for"
    /\ simplify.i = Len(simplify.track)
    /\ simplify' = [simplify EXCEPT !.pc = "returned",
                                    !.result = Append(@, simplify.track[Len(simplify.track)])]
    /\ UNCHANGED <<otherVars, shiftVars, split_str, reorder, extract, parse>>

NextTrack == SimplifyShort \/ SimplifyFirst \/ SimplifyPoint \/ SimplifyLast

SpecTrack == InitTrack /\ [][NextTrack]_vars

(* the positions of the input points kept so far *)
KeptPositions == {simplify.result[p].lat : p \in 1..Len(simplify.result)}

(* the last point kept before the interior point i *)
LastKeptBefore(i) ==
    CHOOSE j \in KeptPositions : j < i /\ \A k \in KeptPositions : k < i => k <= j

Parseable(i) == mon_parse_datetime(simplify.track[i].time) # NoDateTime

(* at least interval_minutes lie between the times of the points j and i *)
ElapsedSince(j, i) ==
    /\ Parseable(i)
    /\ Parseable(j)
    /\ TotalSeconds(mon_parse_datetime(simplify.track[i].time),
                    mon_parse_datetime(simplify.track[j].time))
           >= 60 * simplify.interval_minutes

(* the interior points the loop has looked at *)
Examined == 2..(simplify.i - 1)

(* first and last point kept, order kept, at least two points *)
KeepsEndsInOrder ==
    /\ simplify.pc = "returned" =>
          /\ Len(simplify.track) <= 2 => simplify.result = simplify.track
          /\ Len(simplify.track) >= 2 =>
                /\ Len(simplify.result) >= 2
                /\ simplify.result[1] = simplify.track[1]
                /\ Last(simplify.result) = Last(simplify.track)
    /\ \A p \in 1..Len(simplify.result) :
          simplify.result[p] = simplify.track[simplify.result[p].lat]
    /\ \A p, q \in 1..Len(simplify.result) :
          p < q => simplify.result[p].lat < simplify.result[q].lat

SixOfTheMinuteTrack ==
    (simplify.pc = "returned" /\ simplify.track = MinuteTrack) =>
        [p \in 1..Len(simplify.result) |-> simplify.result[p].lat] = <<1, 21, 41, 61, 81, 101>>

(* C28 as stated: the first and the last point are kept, the kept points
   are in input order and at least two; an interior point is kept exactly
   when at least interval_minutes have elapsed since the timestamp of the
   last point kept before it, so never when its own timestamp is
   unparseable; the 101 points one minute apart give the points at 0, 20,
   40, 60, 80 and 100 minutes. *)
C28_KeptExactlyWhenIntervalElapsed ==
    simplify.pc \in {"for", "returned"} =>
        /\ KeepsEndsInOrder
        /\ SixOfTheMinuteTrack
        /\ Len(simplify.track) > 2 =>
              \A i \in Examined : i \in KeptPositions <=> ElapsedSince(LastKeptBefore(i), i)

(* C28, amended: as above, except that while the last kept point is the
   first point and its timestamp is unparseable, an interior point is kept
   exactly when its own timestamp is parseable. *)
C28_KeptWhenElapsedOrFirstUnparseable ==
    simplify.pc \in {"for", "returned"} =>
        /\ KeepsEndsInOrder
        /\ SixOfTheMinuteTrack
        /\ Len(simplify.track) > 2 =>
              \A i \in Examined :
                  LET j == LastKeptBefore(i) IN
                  /\ ~Parseable(i) => i \notin KeptPositions
                  /\ Parseable(j) => (i \in KeptPositions <=> ElapsedSince(j, i))
                  /\ ~Parseable(j) => (j = 1 /\ (i \in KeptPositions <=> Parseable(i)))

C28_Witness ==
    /\ simplify.pc = "returned"
    /\ Len(simplify.track) = 4
    /\ ~Parseable(1)
    /\ Parseable(2)
    /\ Parseable(3)
    /\ KeptPositions = {1, 2, 4}

-----------------------------------------------------------------------------
(***************************************************************************)
(* parse_monitoring (monitoring_parser.py).  Durations are kept in the     *)
(* unit of their last decimal: duration_min in tenths of a minute, the     *)
(* *_hours fields in hundredths of an hour.  None is NoValue.  The empty   *)
(* dict and the empty list are both the empty function << >>; the fuels,   *)
(* parkings and track of the payloads drawn are lists.                     *)
(***************************************************************************)

MaxParkings == 2

(* payloads that are no JSON object *)
NonMapping(python) == [not_a_dict |-> TRUE, python |-> python]

NonMappings == {NonMapping(p) : p \in {"None", "0", "[1]", "'x'"}}

(* `not data` *)
IsFalsy(data) ==
    \/ DOMAIN data = {}
    \/ "not_a_dict" \in DOMAIN data /\ data.python \in {"None", "0"}

(* the value has a method get *)
HasGet(data) == "not_a_dict" \notin DOMAIN data

(* round(n / d, k), in units of the k-th decimal; the payloads drawn give
   no value half-way between two results *)
RoundDiv(n, d) == (2 * n + d) \div (2 * d)

(* round(seconds / 3600, 2) for a truthy number, else None *)
Hours(seconds) == IF seconds \in {NoValue, 0} THEN NoValue ELSE RoundDiv(seconds, 36)

_empty_monitoring ==
    [mon_mo_uid |-> NoValue, mon_name_mo |-> NoValue, mon_distance |-> NoValue,
     mon_moving_time |-> NoValue, mon_engine_time |-> NoValue,
     mon_engine_idling_time |-> NoValue, mon_last_activity |-> NoValue,
     mon_moving_time_hours |-> NoValue, mon_engine_time_hours |-> NoValue,
     mon_idling_time_hours |-> NoValue, mon_fuel_name |-> NoValue,
     mon_fuel_charges |-> NoValue, mon_fuel_discharges |-> NoValue,
     mon_fuel_rate |-> NoValue, mon_fuel_begin |-> NoValue, mon_fuel_end |-> NoValue,
     mon_fuels |-> << >>, mon_parkings |-> << >>, mon_parkings_count |-> 0,
     mon_parkings_total_hours |-> 0, mon_track |-> << >>]

(* lines 107-119: the fuel records that are objects *)
RECURSIVE FuelRecords(_)
FuelRecords(fuels) ==
    IF fuels = << >> THEN << >>
    ELSE LET fuel == Head(fuels) IN
         (IF IsDict(fuel)
          THEN <<[name |-> Get(fuel, "fuelName", NoValue),
                  charges |-> Get(fuel, "charges", NoValue),
                  discharges |-> Get(fuel, "discharges", NoValue),
                  rate |-> Get(fuel, "rate", NoValue),
                  value_begin |-> Get(fuel, "valueBegin", NoValue),
                  value_end |-> Get(fuel, "valueEnd", NoValue)]>>
          ELSE << >>) \o FuelRecords(Tail(fuels))

(* lines 79-136: the basic fields, the hours and the fuel fields *)
BasicAndFuels(data) ==
    LET mon_fuels == FuelRecords(Get(data, "fuels", << >>))
        f == IF mon_fuels # << >> THEN mon_fuels[1]
             ELSE [name |-> NoValue, charges |-> NoValue, discharges |-> NoValue,
                   rate |-> NoValue, value_begin |-> NoValue, value_end |-> NoValue]
    IN  [mon_mo_uid |-> Get(data, "moUid", NoValue),
         mon_name_mo |-> Get(data, "nameMO", NoValue),
         mon_distance |-> Get(data, "distance", NoValue),
         mon_moving_time |-> Get(data, "movingTime", NoValue),
         mon_engine_time |-> Get(data, "engineTime", NoValue),
         mon_engine_idling_time |-> Get(data, "engineIdlingTime", NoValue),
         mon_last_activity |-> Get(data, "lastActivityTime", NoValue),
         mon_moving_time_hours |-> Hours(Get(data, "movingTime", NoValue)),
         mon_engine_time_hours |-> Hours(Get(data, "engineTime", NoValue)),
         mon_idling_time_hours |-> Hours(Get(data, "engineIdlingTime", NoValue)),
         mon_fuels |-> mon_fuels,
         mon_fuel_name |-> f.name, mon_fuel_charges |-> f.charges,
         mon_fuel_discharges |-> f.discharges, mon_fuel_rate |-> f.rate,
         mon_fuel_begin |-> f.value_begin, mon_fuel_end |-> f.value_end,
         mon_parkings |-> << >>]

(* the duration of a stop, None when a bound does not parse; a missing
   bound is None, which _parse_datetime takes like the empty string *)
ParkingMinutes(p) ==
    LET begin_dt == mon_parse_datetime(Get(p, "begin", EmptyText))
        end_dt == mon_parse_datetime(Get(p, "end", EmptyText))
    IN  IF begin_dt # NoDateTime /\ end_dt # NoDateTime
        THEN RoundDiv(TotalSeconds(end_dt, begin_dt), 6)
        ELSE NoValue

ParkingEvent(p) ==
    [begin |-> Get(p, "begin", NoValue),
     end |-> Get(p, "end", NoValue),
     address |-> Get(p, "address", << >>),
     duration_min |-> ParkingMinutes(p),
     lat |-> Get(p, "lat", NoValue),
     lon |-> Get(p, "lon", NoValue)]

(* mutant of ParkingStep: a stop whose duration is unknown is left out *)
ParkingStepDropsUnparsed(s, p) ==
    IF IsDict(p) /\ ParkingMinutes(p) # NoValue
    THEN [s EXCEPT !.result.mon_parkings = Append(@, ParkingEvent(p)),
                   !.total_parking_minutes = @ + ParkingMinutes(p)]
    ELSE s

(* the body of `for p in parkings` *)
ParkingStep(s, p) ==
    IF IsDict(p)
    THEN [s EXCEPT !.result.mon_parkings = Append(@, ParkingEvent(p)),
                   !.total_parking_minutes =
                       IF ParkingMinutes(p) # NoValue THEN @ + ParkingMinutes(p) ELSE @]
    ELSE s

(* lines 176-189: the points that have both coordinates *)
RECURSIVE TrackPoints(_)
TrackPoints(track) ==
    IF track = << >> THEN << >>
    ELSE LET t == Head(track) IN
         (IF IsDict(t) /\ Get(t, "lat", NoValue) # NoValue /\ Get(t, "lon", NoValue) # NoValue
          THEN <<[lat |-> t.lat, lon |-> t.lon, time |-> Get(t, "time", EmptyText),
                  speed |-> Get(t, "speed", NoValue)]>>
          ELSE << >>) \o TrackPoints(Tail(track))

RECURSIVE SimplifyLoop(_, _)
SimplifyLoop(s, i) ==
    IF i >= Len(s.track) THEN s ELSE SimplifyLoop(SimplifyStep(s, s.track[i]), i + 1)

(* _simplify_track(track) with the default interval *)
SimplifyTrack(track) ==
    IF Len(track) <= 2 THEN track
    ELSE Append(SimplifyLoop([track |-> track,
                              interval_minutes |-> TRACK_SIMPLIFY_INTERVAL_MIN,
                              result |-> <<track[1]>>,
                              last_time |-> mon_parse_datetime(track[1].time)], 2).result,
                track[Len(track)])

StopTimes ==
    [ten |-> Text(TrackDay, <<1, 0, 0, 0, 0, 0>>),
     six_past |-> Text(TrackDay, <<1, 0, 0, 6>>),
     eleven |-> Text(TrackDay, <<1, 1, 0, 0, 0, 0>>),
     date_only |-> Text(TrackDay, << >>)]

(* the entries of a `parkings` array *)
StopEntries ==
    { [begin |-> StopTimes.ten, end |-> StopTimes.six_past],
      [begin |-> StopTimes.six_past, end |-> StopTimes.eleven, address |-> <<"a">>,
       lat |-> 55, lon |-> 37],
      [begin |-> StopTimes.eleven, end |-> StopTimes.ten],
      [begin |-> StopTimes.date_only, end |-> StopTimes.six_past],
      [end |-> StopTimes.eleven, address |-> <<"b">>],
      [begin |-> StopTimes.ten, end |-> EmptyText],
      NonDict }

ParkingLists == UNION {[1..n -> StopEntries] : n \in 0..MaxParkings}

BaseFull ==
    [moUid |-> 5, nameMO |-> NameCapital, distance |-> 1, movingTime |-> 3600,
     engineTime |-> 7200, engineIdlingTime |-> 0, lastActivityTime |-> StopTimes.eleven]

FuelLists ==
    { << >>,
      <<[fuelName |-> 1, charges |-> 2, discharges |-> 0, rate |-> 3,
         valueBegin |-> 40, valueEnd |-> 30]>>,
      <<NonDict, [fuelName |-> 2, rate |-> 4], [fuelName |-> 1]>> }

RawTracks ==
    { << >>,
      <<TrackPoint(1, Text(TrackDay, <<1, 0, 0, 0, 0, 0>>)),
        [lon |-> 0, time |-> Text(TrackDay, <<1, 0, 2, 0, 0, 0>>)],
        TrackPoint(3, Text(TrackDay, <<1, 0, 1, 9, 5, 9>>)),
        NonDict,
        TrackPoint(5, Text(TrackDay, <<1, 0, 2, 0, 0, 0>>)),
        [lat |-> 6, lon |-> 0]>> }

(* the payloads the specification draws *)
RawPayloads ==
    NonMappings
    \cup { << >>, BaseFull }
    \cup { With(base, [parkings |-> l]) :
              base \in {BaseFull, [distance |-> 1]}, l \in ParkingLists }
    \cup { With(BaseFull, [fuels |-> f, track |-> t]) : f \in FuelLists, t \in RawTracks }

InitParse ==
    /\ json_error_is_request_exception = TRUE
    /\ client = << >>
    /\ PoolIdle
    /\ ShiftsIdle
    /\ AppIdle
    /\ split_str = NotCalled
    /\ reorder = NotCalled
    /\ extract = NotCalled
    /\ simplify = NotCalled
    /\ \E data \in RawPayloads :
          parse = [pc |-> "call", data |-> data, result |-> << >>, parkings |-> << >>,
                   total_parking_minutes |-> 0, k |-> 0]

(* lines 76-77 *)
ParseEmpty ==
    /\ parse.pc = "call"
    /\ IsFalsy(parse.data) \/ ~IsDict(parse.data)
    /\ parse' = [parse EXCEPT !.pc = "returned", !.result = _empty_monitoring]
    /\ UNCHANGED <<otherVars, shiftVars, split_str, reorder, extract, simplify>>

(* lines 79-143: data.get raises AttributeError on a value without get *)
ParseBasic ==
    /\ parse.pc = "call"
    /\ ~(IsFalsy(parse.data) \/ ~IsDict(parse.data))
    /\ parse' =
          IF ~HasGet(parse.data) THEN [parse EXCEPT !.pc = "raised"]
          ELSE [parse EXCEPT !.pc = "parkings",
                             !.result = BasicAndFuels(parse.data),
                             !.parkings = Get(parse.data, "parkings", << >>),
                             !.total_parking_minutes = 0,
                             !.k = 1]
    /\ UNCHANGED <<otherVars, shiftVars, split_str, reorder, extract, simplify>>

(* lines 144-167: one entry of parkings *)
ParseParking ==
    /\ parse.pc = "parkings"
    /\ parse.k <= Len(parse.parkings)
    /\ parse' = [ParkingStep(parse, parse.parkings[parse.k]) EXCEPT !.k = @ + 1]
    /\ UNCHANGED <<otherVars, shiftVars, split_str, reorder, extract, simplify>>

(* lines 169-194: the counters, the track, return *)
ParseFinish ==
    /\ parse.pc = "parkings"
    /\ parse.k > Len(parse.parkings)
    /\ LET track == Get(parse.data, "track", << >>)
       IN  parse' = [parse EXCEPT
                        !.pc = "returned",
                        !.result = With(@,
                            [mon_parkings_count |-> Len(parse.result.mon_parkings),
                             mon_parkings_total_hours |->
                                 IF parse.total_parking_minutes # 0
                                 THEN RoundDiv(parse.total_parking_minutes, 6) ELSE 0,
                             mon_track |-> SimplifyTrack(TrackPoints(track))])]
    /\ UNCHANGED <<otherVars, shiftVars, split_str, reorder, extract, simplify>>

NextParse == ParseEmpty \/ ParseBasic \/ ParseParking \/ ParseFinish

SpecParse == InitParse /\ [][NextParse]_vars

(* the stop entries of the payload: the objects of its `parkings` array *)
StopEntriesOf(data) ==
    IF "parkings" \in DOMAIN data
    THEN LET IsObject(p) == "not_a_dict" \notin DOMAIN p IN SelectSeq(data.parkings, IsObject)
    ELSE << >>

BoundParses(p, key) == key \in DOMAIN p /\ mon_parse_datetime(p[key]) # NoDateTime

RECURSIVE SumOfDurations(_)
SumOfDurations(events) ==
    IF events = << >> THEN 0
    ELSE (IF Head(events).duration_min = NoValue THEN 0 ELSE Head(events).duration_min)
             + SumOfDurations(Tail(events))

(* C29: for a payload that is an object, the stop events of the returned
   summary are, in order, one per stop entry of the payload; an event
   carries the bounds of its entry; its duration is end - begin (in tenths
   of a minute: six seconds each) when both bounds parse and null when one
   does not; the count is the number of entries and the total stop time is
   the sum of the durations that are not null. *)
C29_StopEventPerEntry ==
    (parse.pc = "returned" /\ ~IsFalsy(parse.data) /\ HasGet(parse.data)) =>
        LET entries == StopEntriesOf(parse.data)
            events == parse.result.mon_parkings
        IN  /\ Len(events) = Len(entries)
            /\ parse.result.mon_parkings_count = Len(entries)
            /\ \A n \in 1..Len(entries) :
                  LET p == entries[n] IN
                  /\ "begin" \in DOMAIN p => events[n].begin = p.begin
                  /\ "end" \in DOMAIN p => events[n].end = p.end
                  /\ IF BoundParses(p, "begin") /\ BoundParses(p, "end")
                     THEN 6 * events[n].duration_min
                              = TotalSeconds(mon_parse_datetime(p.end),
                                             mon_parse_datetime(p.begin))
                     ELSE events[n].duration_min = NoValue
            /\ 6 * parse.result.mon_parkings_total_hours = SumOfDurations(events)

C29_Witness ==
    /\ parse.pc = "returned"
    /\ HasGet(parse.data)
    /\ "parkings" \in DOMAIN parse.data
    /\ Len(parse.data.parkings) = 2
    /\ Len(parse.result.mon_parkings) = 2
    /\ parse.result.mon_parkings[1].duration_min = NoValue
    /\ parse.result.mon_parkings[2].duration_min = 540
    /\ parse.result.mon_parkings_total_hours = 90

ScalarFields ==
    {"mon_mo_uid", "mon_name_mo", "mon_distance", "mon_moving_time", "mon_engine_time",
     "mon_engine_idling_time", "mon_last_activity", "mon_moving_time_hours",
     "mon_engine_time_hours", "mon_idling_time_hours", "mon_fuel_name", "mon_fuel_charges",
     "mon_fuel_discharges", "mon_fuel_rate", "mon_fuel_begin", "mon_fuel_end"}

(* C30: for a payload that is absent (None), empty or no object, the call
   does not raise, it returns at its first step, and the summary returned
   has every scalar field null, both counters zero and the fuel, stop and
   track lists empty. *)
C30_EmptySummaryForNoPayload ==
    (parse.pc # "call" /\ (IsFalsy(parse.data) \/ ~HasGet(parse.data))) =>
        /\ parse.pc = "returned"
        /\ DOMAIN parse.result
               = ScalarFields \cup {"mon_fuels", "mon_parkings", "mon_parkings_count",
                                    "mon_parkings_total_hours", "mon_track"}
        /\ \A f \in ScalarFields : parse.result[f] = NoValue
        /\ parse.result.mon_fuels = << >>
        /\ parse.result.mon_parkings = << >>
        /\ parse.result.mon_track = << >>
        /\ parse.result.mon_parkings_count = 0
        /\ parse.result.mon_parkings_total_hours = 0

C30_Witness ==
    /\ parse.pc = "returned"
    /\ parse.data = NonMapping("[1]")
    /\ parse.result.mon_parkings_count = 0

-----------------------------------------------------------------------------
(* Termination of split_period_into_shifts.  The loop is the only thing
   that runs, so it is scheduled until it returns. *)

SpecShiftsFair == InitShifts /\ [][NextShifts]_vars /\ WF_vars(NextShifts)

(* the bucket the cursor is in *)
CursorBucket == GetShiftBoundaries(GetShiftKey(current, GetShiftType(current)))

(* one iteration: the cursor lies in its bucket and moves to the bucket's
   end, which is strictly later *)
CursorAdvances ==
    split_pc' = "while" =>
        /\ DtLessEq(CursorBucket[1], current)
        /\ DtLess(current, CursorBucket[2])
        /\ DtLessEq(from_dt, current)
        /\ DtLess(current, to_dt)
        /\ current' = CursorBucket[2]
        /\ DtLess(current, current')

(* the shifts emitted so far have pairwise distinct keys, and all of them
   end at or before the cursor *)
KeysDistinct ==
    split_pc \in {"while", "returned"} =>
        /\ \A i, j \in 1..Len(shifts) : i # j => shifts[i].key # shifts[j].key
        /\ \A i \in 1..Len(shifts) : DtLessEq(shifts[i].to_dt, current)

(* C40: every call returns; each iteration starts with the cursor inside
   [start, end) and inside its half-day bucket and moves the cursor to the
   end of that bucket, strictly later, so no bucket is visited twice; the
   keys of the emitted shifts are pairwise distinct. *)
C40_SplitTerminates ==
    /\ []KeysDistinct
    /\ [][CursorAdvances]_vars
    /\ <>(split_pc = "returned")

C40_Witness ==
    /\ split_pc = "returned"
    /\ Len(shifts) = 2 * MaxDayOffset + 1
    /\ from_dt.second # 0

-----------------------------------------------------------------------------
(* Properties of the rate-limit branch of _make_request *)

(* the number of 429 responses among the first i responses of call c *)
RateLimitNumber(c, i) == Cardinality({j \in 1..i : c.responses[j] = "http429"})

(* C32: the n-th 429 of a call, n = 1..5, is followed by one sleep of
   10 * n after which the loop sends the request again; the sixth 429 ends
   the call as Fatal ("Rate limited too many times") and no sleep follows
   it. *)
C32_RateLimitWaits ==
    \A w \in DOMAIN client :
        LET c == client[w] IN
        \A i \in 1..Len(c.responses) :
            c.responses[i] = "http429" =>
                LET n == RateLimitNumber(c, i) IN
                /\ n <= MaxRateLimitRetries + 1
                /\ n <= MaxRateLimitRetries =>
                      /\ Len(c.sleeps) >= i
                      /\ c.sleeps[i] = 10 * n
                      /\ i = Len(c.responses) =>
                            c.status = "loop" /\ c.attempt < RetryCount
                /\ n = MaxRateLimitRetries + 1 =>
                      /\ i = Len(c.responses)
                      /\ c.status = "RuntimeError"
                      /\ c.message = "Rate limited too many times"
                      /\ Len(c.sleeps) = i - 1

C32_Witness ==
    \E w \in DOMAIN client :
        /\ client[w].responses =
              <<"http429", "timeout", "http429", "http429", "connerr", "http429", "http429",
                "http429">>
        /\ client[w].sleeps = <<10, 1, 20, 30, 2, 40, 50>>
        /\ client[w].status = "RuntimeError"

-----------------------------------------------------------------------------
(* Termination of _make_request *)

(* requests.post returns or raises within its timeout and every sleep is
   finite, so an iteration that can run does run *)
SpecClientFair == InitClient /\ [][NextClient]_vars /\ WF_vars(NextClient)

(* one step of a call sends one request and never lowers rate_limit_retries *)
OneSendPerStep ==
    \A w \in DOMAIN client :
        /\ client'[w].sends = client[w].sends + 1
        /\ client'[w].rate_limit_retries >= client[w].rate_limit_retries

(* the call has sent at most retry_count + max_rate_limit_retries requests,
   and its sixth 429 ended it whatever came between the 429s *)
AttemptsBounded ==
    \A w \in DOMAIN client :
        LET c == client[w] IN
        /\ c.sends <= RetryCount + MaxRateLimitRetries
        /\ c.sends = Len(c.responses)
        /\ Count(c.responses, {"http429"}) <= MaxRateLimitRetries + 1
        /\ Count(c.responses, {"http429"}) = MaxRateLimitRetries + 1 =>
              /\ c.status = "RuntimeError"
              /\ c.message = "Rate limited too many times"
              /\ Last(c.responses) = "http429"

ClientDone == \A w \in DOMAIN client : client[w].status # "loop"

(* C35: every call of _make_request ends, returning or raising, after at
   most retry_count + 5 requests whatever the service answers; the
   rate-limit counter never decreases inside a call, so the sixth 429 is
   Fatal also when other responses came between the 429s. *)
C35_FetchTerminates ==
    /\ []AttemptsBounded
    /\ [][OneSendPerStep]_vars
    /\ <>ClientDone

C35_Witness ==
    \E w \in DOMAIN client :
        /\ client[w].sends = RetryCount + MaxRateLimitRetries
        /\ client[w].status = "RuntimeError"
        /\ client[w].rate_limit_retries = MaxRateLimitRetries + 1
        /\ client[w].attempt = RetryCount - 1
        /\ client[w].responses[1] = "timeout"

-----------------------------------------------------------------------------
(* Properties of the recorded request time *)

(* C33 as stated: whatever the outcome, the time recorded for the vehicle
   is the time at which the wait ended, just before the request was sent. *)
C33_RecordedAtIssue ==
    \A w \in DOMAIN fetch_log :
        \A i \in 1..Len(fetch_log[w]) :
            LET e == fetch_log[w][i] IN
            /\ e.ts_id_mo \in DOMAIN last_request_time[w]
            /\ e.recorded = e.issued

(* C33 amended: whatever the outcome and whether or not the worker slept,
   a time is recorded for the vehicle of every fetched task; it is the time
   at which get_monitoring_stats returned or raised, which is the time the
   request was first sent plus the timeouts and sleeps of the call. *)
C33_RecordedAfterFetch ==
    \A w \in DOMAIN fetch_log :
        /\ \A i \in 1..Len(fetch_log[w]) :
              LET e == fetch_log[w][i] IN
              /\ e.ts_id_mo \in DOMAIN last_request_time[w]
              /\ e.recorded >= e.issued
              /\ last_request_time[w][e.ts_id_mo] >= e.recorded
              /\ e.issued = wait_log[w][i].now + wait_log[w][i].slept
        /\ fetch_log[w] # << >> =>
              LET e == Last(fetch_log[w]) IN
              /\ e.recorded = e.issued + client[w].elapsed
              /\ last_request_time[w][e.ts_id_mo] = e.recorded
              /\ e.outcome = Outcome(client[w])

C33_Witness ==
    \E w \in DOMAIN fetch_log :
        /\ Len(fetch_log[w]) = 2
        /\ wait_log[w][2].slept > 0
        /\ fetch_log[w][1].outcome = "NotFound"
        /\ fetch_log[w][2].outcome = "Fatal"
        /\ fetch_log[w][2].recorded > fetch_log[w][2].issued
        /\ last_request_time[w][fetch_log[w][2].ts_id_mo] = fetch_log[w][2].recorded

-----------------------------------------------------------------------------
(* Spacing of the requests sent for one vehicle *)

(* the time between the k-th and the (k+1)-th requests.post of call c: the
   timeout waited for, if the k-th timed out, and the sleep that followed *)
SendGap(c, k) ==
    (IF c.responses[k] = "timeout" THEN RequestTimeout ELSE 0) + c.sleeps[k]

(* C34: within one worker two consecutive requests sent for the same
   vehicle are at least RATE_LIMIT_SECONDS apart, both between two calls of
   get_monitoring_stats and between the repeated requests inside one call. *)
C34_AttemptsCooldownApart ==
    \A w \in DOMAIN fetch_log :
        /\ \A i, j \in 1..Len(fetch_log[w]) :
              (i < j /\ fetch_log[w][i].ts_id_mo = fetch_log[w][j].ts_id_mo) =>
                  fetch_log[w][j].issued - fetch_log[w][i].recorded >= RATE_LIMIT_SECONDS
        /\ fetch_log[w] # << >> =>
              \A k \in 1..(client[w].sends - 1) :
                  SendGap(client[w], k) >= RATE_LIMIT_SECONDS

-----------------------------------------------------------------------------
(* One token against several tokens *)

(* the service answers every request for a vehicle by the same script *)
VehicleDetermined == \A v \in DOMAIN service : Cardinality(service[v]) = 1

ScriptOf(v) == CHOOSE script \in service[v] : TRUE

DistinctKeys == Cardinality(InputKeys) = Len(tasks)

(* the record stored for a task by a fetch that follows the vehicle's script *)
SummaryOf(task) ==
    StoredValue(RunRequest(ClientInit, ScriptOf(task.ts_id_mo), 1,
                           json_error_is_request_exception))

(* C36: for pairwise distinct task keys and a service whose answer depends
   only on the vehicle, fetch_monitoring_batch returns, and the map it
   returns is fixed by the task list and the service alone: the number of
   tokens and the interleaving of the workers play no part. *)
C36_SameMapForAnyTokens ==
    (VehicleDetermined /\ DistinctKeys) =>
        /\ main_pc # "raised"
        /\ main_pc = "returned" =>
              results = [k \in InputKeys |->
                            SummaryOf(CHOOSE t \in {tasks[i] : i \in 1..Len(tasks)} :
                                          Key(t) = k)]

C36_Witness ==
    /\ main_pc = "returned"
    /\ tokens > 1
    /\ VehicleDetermined
    /\ DistinctKeys
    /\ Len(tasks) = 4
    /\ merged = <<1, 0>>
    /\ \E k \in InputKeys : results[k] = EmptyMonitoring
    /\ \E k \in InputKeys : results[k] # EmptyMonitoring

-----------------------------------------------------------------------------
(* SpecConstruct: DataFetcher(config_path) and one call of
   fetch_monitoring_batch on the object built.  The configuration holds
   api.token (the empty string also stands for an absent key) and the list
   api.tokens. *)

MaxListed == 2
MaxCollect == 2

TokenTexts == {"", "A", "B", "SECOND_TOKEN_HERE"}

ListedTokens == UNION {[1..n -> TokenTexts] : n \in 0..MaxListed}

(* str.startswith('SECOND') or str.startswith('THIRD') *)
IsPlaceholder(t) == t \in {"SECOND_TOKEN_HERE", "THIRD_TOKEN_HERE"}

(* mutant of TokenMissing: the token is not tested *)
TokenMissingNever(t) == FALSE

(* `if not self.token` *)
TokenMissing(t) == t = ""

IsUsable(t) == ~TokenMissing(t) /\ ~IsPlaceholder(t)

(* _load_tokens: api.tokens, or [api.token] when the list is empty and the
   token is set; empty and placeholder entries are dropped *)
LoadTokens(token, listed) ==
    LET found == IF listed # << >> THEN listed
                 ELSE IF ~TokenMissing(token) THEN <<token>> ELSE << >>
    IN SelectSeq(found, IsUsable)

(* the tokens the requests of fetch_monitoring_batch are sent with: the
   loaded ones when there are several, else the token of self.client *)
TokensInUse(c) == IF Len(c.tokens) > 1 THEN c.tokens ELSE <<c.token>>

InitConstruct ==
    /\ json_error_is_request_exception = TRUE
    /\ client = << >>
    /\ PoolIdle
    /\ ShiftsIdle
    /\ split_str = NotCalled
    /\ reorder = NotCalled
    /\ extract = NotCalled
    /\ simplify = NotCalled
    /\ parse = NotCalled
    /\ server = NotCalled
    /\ sync = NotCalled
    /\ \E t \in TokenTexts, listed \in ListedTokens :
          construct = [pc |-> "new", token |-> t, listed |-> listed, tokens |-> << >>,
                       error |-> "none", todo |-> 0, dispatched |-> 0, requests |-> 0,
                       stored |-> << >>]

constructRest ==
    <<json_error_is_request_exception, client, poolVars, shiftVars, split_str, reorder,
      extract, simplify, parse, server, sync>>

(* APIClient.__init__: the token is read and tested *)
ClientConstruct ==
    /\ construct.pc = "new"
    /\ construct' = IF TokenMissing(construct.token)
                    THEN [construct EXCEPT !.pc = "raised", !.error = "ValueError"]
                    ELSE [construct EXCEPT !.pc = "client"]
    /\ UNCHANGED constructRest

(* the rest of DataFetcher.__init__: self.tokens = self._load_tokens(...) *)
FetcherConstruct ==
    /\ construct.pc = "client"
    /\ construct' = [construct EXCEPT !.pc = "built",
                                      !.tokens = LoadTokens(construct.token, construct.listed)]
    /\ UNCHANGED constructRest

(* fetch_monitoring_batch(tasks) is called with n tasks *)
CollectCall ==
    /\ construct.pc = "built"
    /\ \E n \in 0..MaxCollect :
          construct' = [construct EXCEPT !.pc = "collect", !.todo = n]
    /\ UNCHANGED constructRest

(* one pass through the loop body of a worker: the fetch and the handling
   of what it raised *)
CollectTask ==
    /\ construct.pc = "collect"
    /\ construct.todo > 0
    /\ \E script \in Scripts :
          LET c == RunRequest(ClientInit, script, 1, json_error_is_request_exception)
              exc == TryException(c)
              handled == exc = "none" \/ Handler(exc) # "none"
          IN construct' =
                IF handled
                THEN [construct EXCEPT !.todo = @ - 1, !.dispatched = @ + 1,
                                       !.requests = @ + c.sends,
                                       !.stored = Append(@, StoredValue(c))]
                ELSE [construct EXCEPT !.pc = "raised", !.error = exc,
                                       !.dispatched = @ + 1, !.requests = @ + c.sends]
    /\ UNCHANGED constructRest

(* return results *)
CollectReturn ==
    /\ construct.pc = "collect"
    /\ construct.todo = 0
    /\ construct' = [construct EXCEPT !.pc = "returned"]
    /\ UNCHANGED constructRest

NextConstruct ==
    \/ ClientConstruct
    \/ FetcherConstruct
    \/ CollectCall
    \/ CollectTask
    \/ CollectReturn

SpecConstruct == InitConstruct /\ [][NextConstruct]_vars

(* C31: a configuration without api.token makes the constructor raise
   ValueError, and whenever a constructor or the call raised nothing was
   dispatched and no request was sent; every token a request is sent with
   is non-empty; once a task has been dispatched nothing is raised to the
   caller of fetch_monitoring_batch. *)
C31_MissingTokenRaisedAtConstruction ==
    /\ construct.token = "" =>
          /\ construct.pc \in {"new", "raised"}
          /\ construct.dispatched = 0
          /\ construct.requests = 0
    /\ construct.pc = "raised" =>
          /\ construct.error = "ValueError"
          /\ construct.token = ""
          /\ construct.dispatched = 0
          /\ construct.requests = 0
    /\ construct.pc \in {"collect", "returned"} =>
          \A i \in 1..Len(TokensInUse(construct)) : TokensInUse(construct)[i] # ""
    /\ construct.dispatched > 0 =>
          /\ construct.pc \in {"collect", "returned"}
          /\ Len(construct.stored) = construct.dispatched

C31_Witness ==
    /\ construct.pc = "raised"
    /\ construct.token = ""
    /\ construct.listed = <<"A", "B">>

-----------------------------------------------------------------------------
(* SpecServer: the start requests of web/server.py and the pipelines they
   start.  The handlers are coroutines without an await, run by the one
   event loop of uvicorn.run(app); the pipelines are plain functions, which
   the background tasks run in worker threads.  A `with lock:` block is one
   step. *)

MaxRequests == 3

Reqs == 1..MaxRequests

NoRequest == 0

(* the dict assigned at module level: nothing is running *)
StatusIdle ==
    [running |-> FALSE, progress |-> "", error |-> "None", completed_at |-> "None",
     stats |-> "None", report_id |-> NoValue]

(* the dict a start request assigns *)
StatusStarted(report_id) ==
    [running |-> TRUE, progress |-> "Starting...", error |-> "None",
     completed_at |-> "None", stats |-> "None", report_id |-> report_id]

FetchKinds == {"fetch", "report"}

InitServer ==
    /\ json_error_is_request_exception = TRUE
    /\ client = << >>
    /\ PoolIdle
    /\ ShiftsIdle
    /\ split_str = NotCalled
    /\ reorder = NotCalled
    /\ extract = NotCalled
    /\ simplify = NotCalled
    /\ parse = NotCalled
    /\ construct = NotCalled
    /\ sync = NotCalled
    /\ server = [pc |-> "serving",
                 fetch_status |-> StatusIdle,
                 sync_status |-> StatusIdle,
                 on_loop |-> NoRequest,
                 req |-> [r \in Reqs |-> [kind |-> "none", pc |-> "idle", response |-> "none"]],
                 pipe |-> [r \in Reqs |-> "none"]]

serverRest ==
    <<json_error_is_request_exception, client, poolVars, shiftVars, split_str, reorder,
      extract, simplify, parse, construct, sync>>

(* mutant of LoopFree: the handlers of two requests may interleave *)
LoopFreeAlways(r) == TRUE

(* the event loop runs the coroutine of request r: no other handler is
   between two of its steps *)
LoopFree(r) == server.on_loop \in {NoRequest, r}

Responded(r, kind, response) ==
    [server.req EXCEPT ![r] = [kind |-> kind, pc |-> "responded", response |-> response]]

(* POST /api/fetch: check and assignment in one `with fetch_lock` block,
   then background_tasks.add_task(run_fetch_pipeline, ...) *)
StartFetch(r) ==
    /\ server.req[r].pc = "idle"
    /\ LoopFree(r)
    /\ server' =
          IF server.fetch_status.running
          THEN [server EXCEPT !.req = Responded(r, "fetch", "400")]
          ELSE [server EXCEPT !.req = Responded(r, "fetch", "started"),
                              !.fetch_status = StatusStarted(NoValue),
                              !.pipe[r] = "running"]
    /\ UNCHANGED serverRest

(* POST /api/reports, first `with fetch_lock` block: the check alone *)
ReportCheck(r) ==
    /\ server.req[r].pc = "idle"
    /\ LoopFree(r)
    /\ server' =
          IF server.fetch_status.running
          THEN [server EXCEPT !.req = Responded(r, "report", "400")]
          ELSE [server EXCEPT !.req[r] = [kind |-> "report", pc |-> "checked",
                                          response |-> "none"],
                              !.on_loop = r]
    /\ UNCHANGED serverRest

(* POST /api/reports, the rest: db.create_report, which may raise, then the
   second `with fetch_lock` block, which assigns without a check, and
   add_task(run_fetch_pipeline_for_report, ...) *)
ReportStart(r) ==
    /\ server.req[r].pc = "checked"
    /\ LoopFree(r)
    /\ \/ server' = [server EXCEPT !.req = Responded(r, "report", "500"),
                                   !.on_loop = NoRequest]
       \/ server' = [server EXCEPT !.req = Responded(r, "report", "started"),
                                   !.on_loop = NoRequest,
                                   !.fetch_status = StatusStarted(r),
                                   !.pipe[r] = "running"]
    /\ UNCHANGED serverRest

(* POST /api/sync: check and assignment in one `with sync_lock` block; the
   date range is computed after it and raises OverflowError for a
   period_days too large, before add_task(run_sync_pipeline, ...) *)
StartSync(r) ==
    /\ server.req[r].pc = "idle"
    /\ LoopFree(r)
    /\ IF server.sync_status.running
       THEN server' = [server EXCEPT !.req = Responded(r, "sync", "400")]
       ELSE \/ server' = [server EXCEPT !.req = Responded(r, "sync", "started"),
                                        !.sync_status = StatusStarted(NoValue),
                                        !.pipe[r] = "running"]
            \/ server' = [server EXCEPT !.req = Responded(r, "sync", "500"),
                                        !.sync_status = StatusStarted(NoValue)]
    /\ UNCHANGED serverRest

IsFetchPipe(r) == server.req[r].kind \in FetchKinds

(* `with lock: status['progress'] = ...` of a pipeline *)
PipeProgress(r) ==
    /\ server.pipe[r] = "running"
    /\ server' = IF IsFetchPipe(r)
                 THEN [server EXCEPT !.fetch_status.progress = "working"]
                 ELSE [server EXCEPT !.sync_status.progress = "working"]
    /\ server' # server
    /\ UNCHANGED serverRest

Completed(status) ==
    [status EXCEPT !.running = FALSE, !.progress = "done", !.completed_at = "now",
                   !.stats = "stats"]

Failed(status) == [status EXCEPT !.running = FALSE, !.error = "str(e)"]

(* the end of the try block of a pipeline *)
PipeSucceed(r) ==
    /\ server.pipe[r] = "running"
    /\ server' = IF IsFetchPipe(r)
                 THEN [server EXCEPT !.fetch_status = Completed(@), !.pipe[r] = "completed"]
                 ELSE [server EXCEPT !.sync_status = Completed(@), !.pipe[r] = "completed"]
    /\ UNCHANGED serverRest

(* mutant of PipeFail: the handler of the exception leaves running as it is *)
PipeFailKeepsRunning(r) ==
    /\ server.pipe[r] = "running"
    /\ server' = IF IsFetchPipe(r)
                 THEN [server EXCEPT !.fetch_status.error = "str(e)", !.pipe[r] = "failed"]
                 ELSE [server EXCEPT !.sync_status.error = "str(e)", !.pipe[r] = "failed"]
    /\ UNCHANGED serverRest

(* `except Exception as e` of a pipeline *)
PipeFail(r) ==
    /\ server.pipe[r] = "running"
    /\ server' = IF IsFetchPipe(r)
                 THEN [server EXCEPT !.fetch_status = Failed(@), !.pipe[r] = "failed"]
                 ELSE [server EXCEPT !.sync_status = Failed(@), !.pipe[r] = "failed"]
    /\ UNCHANGED serverRest

NextServer ==
    \E r \in Reqs :
        \/ StartFetch(r)
        \/ ReportCheck(r)
        \/ ReportStart(r)
        \/ StartSync(r)
        \/ PipeProgress(r)
        \/ PipeSucceed(r)
        \/ PipeFail(r)

SpecServer == InitServer /\ [][NextServer]_vars

(* a worker thread that runs a pipeline goes on to the end of its try
   block or to its except clause *)
SpecServerFair ==
    SpecServer /\ \A r \in Reqs : WF_vars(PipeSucceed(r) \/ PipeFail(r))

Serving == server.pc = "serving"

RunningPipes(kinds) ==
    {r \in Reqs : server.pipe[r] = "running" /\ server.req[r].kind \in kinds}

AtMostOnePipeline ==
    Serving =>
        /\ Cardinality(RunningPipes(FetchKinds)) <= 1
        /\ Cardinality(RunningPipes({"sync"})) <= 1
        /\ RunningPipes(FetchKinds) # {} => server.fetch_status.running
        /\ RunningPipes({"sync"}) # {} => server.sync_status.running

(* the status a request of the kind tests *)
StatusFor(s, kind) == IF kind = "sync" THEN s.sync_status ELSE s.fetch_status

(* a request that arrives while running is true is answered 400 and
   changes neither status nor pipelines; 400 is answered in no other case *)
RejectedWhileRunning ==
    Serving =>
        \A r \in Reqs :
            (server.req[r].pc = "idle" /\ server'.req[r].pc # "idle") =>
                LET kind == server'.req[r].kind IN
                /\ StatusFor(server, kind).running <=> server'.req[r].response = "400"
                /\ server'.req[r].response = "400" =>
                      /\ server'.fetch_status = server.fetch_status
                      /\ server'.sync_status = server.sync_status
                      /\ server'.pipe = server.pipe

(* C37: at most one fetch pipeline and at most one sync pipeline is running
   at any time, running is true while one is, and a start request that
   finds running true is answered 400 and leaves the status and the
   pipelines as they are. *)
C37_OnePipelineAtATime ==
    /\ []AtMostOnePipeline
    /\ [][RejectedWhileRunning]_vars

C37_Witness ==
    /\ Serving
    /\ \E r1, r2, r3 \in Reqs :
          /\ server.pipe[r1] = "running" /\ server.req[r1].kind = "report"
          /\ server.req[r2].kind = "fetch" /\ server.req[r2].response = "400"
          /\ server.req[r3].kind = "report" /\ server.req[r3].response = "400"

(* the step in which the pipeline of request r ends *)
PipelineEnds(r) == server.pipe[r] = "running" /\ server'.pipe[r] # "running"

(* the end of a pipeline clears running: with completed_at and stats when
   the try block ended, with the error text when an exception was caught *)
EndClearsRunning ==
    Serving =>
        \A r \in Reqs :
            PipelineEnds(r) =>
                LET before == StatusFor(server, server.req[r].kind)
                    after == StatusFor(server', server.req[r].kind)
                IN /\ before.running
                   /\ ~after.running
                   /\ server'.pipe[r] = "completed" =>
                         after.completed_at # "None" /\ after.stats # "None"
                   /\ server'.pipe[r] = "failed" => after.error # "None"

PipelineEnded(r) == Serving /\ server.pipe[r] \in {"completed", "failed"}

(* no fetch pipeline is running and no handler is between its two blocks:
   running is false, so the next POST /api/fetch or /api/reports passes
   the check *)
FetchFlagFollowsPipeline ==
    (Serving /\ RunningPipes(FetchKinds) = {} /\ server.on_loop = NoRequest) =>
        ~server.fetch_status.running

(* C38: every started fetch or sync pipeline ends, and the step that ends it
   sets running to false, together with completed_at and stats after a
   success and together with the error text after an exception; the fetch
   flag is false whenever no fetch pipeline is running, so that the next
   start request is accepted. *)
C38_RunningEventuallyCleared ==
    /\ [][EndClearsRunning]_vars
    /\ []FetchFlagFollowsPipeline
    /\ \A r \in Reqs : (Serving /\ server.pipe[r] = "running") ~> PipelineEnded(r)

C38_Witness ==
    /\ Serving
    /\ \E r1, r2, r3 \in Reqs :
          /\ r1 # r2
          /\ server.pipe[r1] = "failed"
          /\ server.req[r2].kind = server.req[r1].kind
          /\ server.pipe[r2] = "completed"
          /\ server.pipe[r3] = "running" /\ server.req[r3].kind = "sync"
          /\ server.fetch_status.error = "None"
          /\ server.fetch_status.stats # "None"

-----------------------------------------------------------------------------
(* SpecSync: runs of sync_vehicle_data over one database.  A PL is known by
   its pl_id (unique in pl_records); a run sees, for every PL matched to
   requests, whether it is linked to a request that is stable
   (SUCCESSFULLY_COMPLETED), to one that is not, or to both. *)

MaxSyncPl == 2
MaxSyncs == 2

SyncPls == 1..MaxSyncPl

Stabilities == {"stable", "in_progress"}

(* stable_pl_ids and unstable_pl_ids *)
StablePlIds(linked) == {p \in SyncPls : "stable" \in linked[p]}
UnstablePlIds(linked) == {p \in SyncPls : "in_progress" \in linked[p]}
AllSyncPlIds(linked) == StablePlIds(linked) \cup UnstablePlIds(linked)

(* the pl_ids of the records with has_monitoring == True *)
AlreadyMonitored(db) == {p \in SyncPls : db[p] = "monitored"}

(* mon_tasks, by pl_id *)
MonTasks(db, linked, tasked) ==
    {p \in tasked : p \in AllSyncPlIds(linked) /\ p \notin AlreadyMonitored(db)}

(* mutant of MarkMonitored: only a PL whose fetch brought data is marked *)
MarkMonitoredWithData(db, dispatched, outcome) ==
    [p \in SyncPls |->
        IF p \in dispatched /\ db[p] # "absent" /\ outcome[p] = "Success"
        THEN "monitored" ELSE db[p]]

(* `for task in mon_tasks: plr = ...first(); if plr: plr.has_monitoring = True` *)
MarkMonitored(db, dispatched, outcome) ==
    [p \in SyncPls |-> IF p \in dispatched /\ db[p] # "absent" THEN "monitored" ELSE db[p]]

(* the PLs whose last fetch ended in an Empty summary and whose record was
   marked after it and has not been reset or deleted since *)
FailedAfter(failed, db, dispatched, outcome) ==
    (failed \ dispatched) \cup
    {p \in dispatched : outcome[p] = "Empty" /\ db[p] # "absent"}

InitSync ==
    /\ json_error_is_request_exception = TRUE
    /\ client = << >>
    /\ PoolIdle
    /\ ShiftsIdle
    /\ split_str = NotCalled
    /\ reorder = NotCalled
    /\ extract = NotCalled
    /\ simplify = NotCalled
    /\ parse = NotCalled
    /\ construct = NotCalled
    /\ server = NotCalled
    /\ sync = [pc |-> "ready", runs |-> 0,
               db |-> [p \in SyncPls |-> "absent"],
               linked |-> [p \in SyncPls |-> {}],
               tasked |-> {}, mon_tasks |-> {}, orphan_tasks |-> {},
               outcome |-> [p \in SyncPls |-> "none"],
               failed |-> {}]

syncRest ==
    <<json_error_is_request_exception, client, poolVars, shiftVars, split_str, reorder,
      extract, simplify, parse, construct, server>>

(* steps 2 to 5: the PLs and requests of the period are fetched and matched,
   and a record is inserted for every matched PL that has a vehicle and no
   record yet; an existing record keeps its has_monitoring.  Of the tasks
   extracted only those of matched PLs are looked at. *)
SyncUpsert ==
    /\ sync.pc = "ready"
    /\ sync.runs < MaxSyncs
    /\ \E linked \in [SyncPls -> SUBSET Stabilities] :
       \E tasked \in SUBSET AllSyncPlIds(linked), with_vehicle \in SUBSET AllSyncPlIds(linked) :
          sync' = [sync EXCEPT
                      !.pc = "reset", !.runs = @ + 1, !.linked = linked, !.tasked = tasked,
                      !.mon_tasks = {}, !.orphan_tasks = {},
                      !.outcome = [p \in SyncPls |-> "none"],
                      !.db = [p \in SyncPls |->
                                 IF p \in with_vehicle /\ @[p] = "absent"
                                 THEN "unmonitored" ELSE @[p]]]
    /\ UNCHANGED syncRest

(* lines 244-251: has_monitoring = False for the records of unstable_pl_ids *)
SyncReset ==
    /\ sync.pc = "reset"
    /\ sync' = [sync EXCEPT
                   !.pc = "select",
                   !.db = [p \in SyncPls |->
                              IF p \in UnstablePlIds(sync.linked) /\ @[p] # "absent"
                              THEN "unmonitored" ELSE @[p]],
                   !.failed = @ \ UnstablePlIds(sync.linked)]
    /\ UNCHANGED syncRest

(* lines 253-266: already_monitored is read and mon_tasks is filtered *)
SyncSelect ==
    /\ sync.pc = "select"
    /\ LET chosen == MonTasks(sync.db, sync.linked, sync.tasked) IN
       sync' = [sync EXCEPT !.mon_tasks = chosen,
                            !.pc = IF chosen # {} THEN "fetch" ELSE "orphans"]
    /\ UNCHANGED syncRest

(* fetch_monitoring_batch(mon_tasks): every task ends with parsed data or
   with the empty record *)
SyncFetch ==
    /\ sync.pc = "fetch"
    /\ \E outcome \in [sync.mon_tasks -> {"Success", "Empty"}] :
          sync' = [sync EXCEPT
                      !.pc = "mark",
                      !.outcome = [p \in SyncPls |->
                                      IF p \in sync.mon_tasks THEN outcome[p] ELSE "none"]]
    /\ UNCHANGED syncRest

(* lines 315-324: the records of the tasks are marked *)
SyncMark ==
    /\ sync.pc = "mark"
    /\ sync' = [sync EXCEPT
                   !.pc = "orphans",
                   !.db = MarkMonitored(@, sync.mon_tasks, sync.outcome),
                   !.failed = FailedAfter(@, sync.db, sync.mon_tasks, sync.outcome)]
    /\ UNCHANGED syncRest

(* step 6b: records without monitoring that this run did not handle are
   fetched and marked, when they have planned dates and a tractor; the
   function returns and its locals are gone *)
SyncOrphans ==
    /\ sync.pc = "orphans"
    /\ LET handled == AllSyncPlIds(sync.linked) \cup AlreadyMonitored(sync.db)
           candidates == {p \in SyncPls : sync.db[p] = "unmonitored" /\ p \notin handled}
       IN \E orphans \in SUBSET candidates :
          \E outcome \in [orphans -> {"Success", "Empty"}] :
             sync' = [sync EXCEPT
                         !.pc = "ready",
                         !.linked = [p \in SyncPls |-> {}],
                         !.tasked = {}, !.mon_tasks = {},
                         !.outcome = [p \in SyncPls |-> "none"],
                         !.orphan_tasks = orphans,
                         !.db = MarkMonitored(@, orphans,
                                              [p \in SyncPls |->
                                                  IF p \in orphans THEN outcome[p]
                                                  ELSE "none"]),
                         !.failed = FailedAfter(@, sync.db, orphans,
                                                [p \in SyncPls |->
                                                    IF p \in orphans THEN outcome[p]
                                                    ELSE "none"])]
    /\ UNCHANGED syncRest

(* Database.cleanup_old_data between two runs: old records are deleted *)
CleanupOld ==
    /\ sync.pc = "ready"
    /\ sync.runs < MaxSyncs
    /\ \E old \in (SUBSET {p \in SyncPls : sync.db[p] # "absent"}) \ {{}} :
          sync' = [sync EXCEPT
                      !.db = [p \in SyncPls |-> IF p \in old THEN "absent" ELSE @[p]],
                      !.failed = @ \ old]
    /\ UNCHANGED syncRest

NextSync ==
    \/ SyncUpsert
    \/ SyncReset
    \/ SyncSelect
    \/ SyncFetch
    \/ SyncMark
    \/ SyncOrphans
    \/ CleanupOld

SpecSync == InitSync /\ [][NextSync]_vars

Syncing == sync.pc # "idle"

(* after the marking every dispatched PL that has a record is marked,
   whatever its fetch brought *)
DispatchedAreMarked ==
    (Syncing /\ sync.pc = "orphans") =>
        \A p \in sync.mon_tasks : sync.db[p] # "unmonitored"

(* a PL whose fetch failed and whose record was marked stays marked as long
   as no run has reset it *)
FailedStayMarked ==
    Syncing => \A p \in sync.failed : sync.db[p] = "monitored"

(* such a PL is put neither among the monitoring tasks nor among the orphan
   tasks of a run *)
FailedLeftOut ==
    Syncing =>
        \A p \in sync.failed :
            /\ sync.pc = "select" => p \notin sync'.mon_tasks
            /\ sync.pc = "orphans" => p \notin sync'.orphan_tasks

(* has_monitoring goes from true to false only in the reset, and only for
   a PL linked to a request that is not stable *)
ResetOnlyUnstable ==
    Syncing =>
        \A p \in SyncPls :
            (sync.db[p] = "monitored" /\ sync'.db[p] = "unmonitored") =>
                sync.pc = "reset" /\ p \in UnstablePlIds(sync.linked)

(* C39: once the batch has returned every dispatched PL that has a record
   has has_monitoring = true, also when its fetch ended in the empty
   record; the flag is cleared only by the reset and only for PLs linked to
   a request that is not stable; a PL of stable requests whose fetch failed
   is in the monitoring tasks of no later run while its record exists. *)
C39_FailedStableNeverRefetched ==
    /\ []DispatchedAreMarked
    /\ []FailedStayMarked
    /\ [][FailedLeftOut]_vars
    /\ [][ResetOnlyUnstable]_vars

C39_Witness ==
    /\ Syncing
    /\ sync.runs = 2
    /\ sync.pc = "orphans"
    /\ \E p \in sync.failed :
          /\ sync.linked[p] = {"stable"}
          /\ p \in sync.tasked
          /\ p \notin sync.mon_tasks
          /\ sync.db[p] = "monitored"
    /\ sync.mon_tasks # {}

====
